---- MODULE Spec2Model ----
(***************************************************************************)
(* Monte-Carlo EM parameter estimation: the single-chain optimizer of      *)
(* my_mcem_fixed.py (run_mcem / exptn_maxtn), driven by the trajectory     *)
(* evaluator that estimate_pathway builds in phase6_parameter_estimation.  *)
(*                                                                         *)
(* Reals are records [nan, m, e] standing for m * 10^e (or NaN), so that   *)
(* the sentinel 1e10 and the penalty cost n * 1e20 are exact.  Spreads are *)
(* kept squared (variance) so that np.std stays in the integers.           *)
(***************************************************************************)
EXTENDS Integers, Sequences, FiniteSets, TLC

\* ------------------------------------------------------------------ bounds
MaxIter  == 3     \* maxiter ranges over 1..MaxIter
MaxInner == 2     \* inner_loop ranges over 1..MaxInner
MaxRuns  == 2     \* run_mcem calls made with the same inputs
MaxDraws == 1     \* draws other code makes on the global stream
MaxSize  == 100   \* data.size of a penalty vector ranges over 1..MaxSize
MaxConc  == 2     \* state-vector entries range over -1..MaxConc tenths, and NaN
MaxPgi   == 10    \* G6P ranges over 0..MaxPgi tenths of mM, F6P over as many steps
MaxGly   == 2     \* glycolysis state entries range over 0..MaxGly halves of mM
MaxChains == 2    \* run_mcem's chains argument ranges over 0..MaxChains
MaxThrUlps == 1   \* thr holds 0..MaxThrUlps ulps of a collapsed mean

\* ------------------------------------------------------- float arithmetic
NaN == [nan |-> TRUE, m |-> 0, e |-> 0]

Sci(m, e) == [nan |-> FALSE, m |-> m, e |-> IF m = 0 THEN 0 ELSE e]

Num(m) == Sci(m, 0)

FNeg(a) == IF a.nan THEN NaN ELSE Sci(-a.m, a.e)

FAbs(a) == IF a.nan THEN NaN ELSE Sci(IF a.m < 0 THEN -a.m ELSE a.m, a.e)

FMul(a, b) == IF a.nan \/ b.nan THEN NaN ELSE Sci(a.m * b.m, a.e + b.e)

\* Operands of different decades are at least ten decades apart here, and
\* the small one is below half an ulp of the large one: float64 absorbs it.
FAdd(a, b) ==
    IF a.nan \/ b.nan THEN NaN
    ELSE IF a.e = b.e THEN Sci(a.m + b.m, a.e)
    ELSE IF a.m = 0 THEN b
    ELSE IF b.m = 0 THEN a
    ELSE IF a.e > b.e THEN a ELSE b

FSub(a, b) == FAdd(a, FNeg(b))

\* IEEE comparison: anything compared with NaN is false.
FLess(a, b) ==
    /\ ~a.nan
    /\ ~b.nan
    /\ IF a.e = b.e THEN a.m < b.m
       ELSE IF a.m = 0 THEN b.m > 0
       ELSE IF b.m = 0 THEN a.m < 0
       ELSE IF a.e > b.e THEN a.m < 0 ELSE b.m > 0

FLeq(a, b) == ~a.nan /\ ~b.nan /\ (a = b \/ FLess(a, b))

IsPositive(a) == FLess(Num(0), a)

\* the element of a one-element set: {f(x) : x \in {e}} evaluates e once
Only(S) == CHOOSE x \in S : TRUE

RECURSIVE FSum(_)
FSum(s) ==
    IF s = <<>> THEN Num(0)
    ELSE Only({FAdd(x[1], x[2]) : x \in {<<Head(s), FSum(Tail(s))>>}})

\* result ** 2, elementwise
FSquares(s) == [i \in 1..Len(s) |-> FMul(s[i], s[i])]

RECURSIVE Factorial(_)
Factorial(n) == IF n <= 1 THEN 1 ELSE n * Factorial(n - 1)

\* Candidates lie on multiples of Unit, which makes the mean and the
\* variance of every pool of at most MaxInner candidates integral.
Unit == Factorial(MaxInner) * Factorial(MaxInner)

\* ------------------------------------------------- the global random stream
\* numpy's generator is a fixed function of (seed, position); the model
\* draws that function from Patterns and keeps it for the whole behaviour.
Patterns ==
    {<<0, 1, 1>>, <<1, 0, 1>>, <<0, 0, 1>>, <<1, 0, 0, 0>>, <<0, 1, 1, 1, 0>>}

Raw(pattern, seed, pos) == pattern[((seed + pos) % Len(pattern)) + 1]

\* np.random.seed(s)
Seed(s) == [seed |-> s, pos |-> 0]

\* the stream after one draw
Advance(r) == [r EXCEPT !.pos = @ + 1]

\* np.random.uniform(0, 1) / np.random.rand(), in hundredths: 0.01 or 0.75
Uniform100(pattern, r) == IF Raw(pattern, r.seed, r.pos) = 0 THEN 1 ELSE 75

\* ------------------------------------------------ setup (estimate_pathway)
\* get_parameters_to_estimate: the ordered free-parameter names
ParamsToEstimate == <<"HXK_Vmax", "HXK_Km_glucose">>

\* the names the pathway's rate functions look up in the parameter dict
RateNames == {"HXK_Vmax", "HXK_Km_glucose", "HXK_Ki_G6P", "HXK_Ki_T6P"}

\* kinetic_parameters.GLYCOLYSIS_PARAMS, in model units
DefaultParams ==
    [n \in RateNames |->
        IF n = "HXK_Vmax" THEN Num(80)
        ELSE IF n = "HXK_Km_glucose" THEN Num(160) ELSE Num(16)]

\* what load_data_flexible can find in the data file: a true_params dict
\* (any content, but holding every free name) or none
DataFiles ==
    { [has_true_params |-> TRUE, true_params |-> DefaultParams],
      [has_true_params |-> TRUE,
       true_params |-> [n \in RateNames \ {"HXK_Ki_T6P"} |-> DefaultParams[n]]],
      [has_true_params |-> TRUE,
       true_params |-> [DefaultParams EXCEPT !["HXK_Vmax"] = Num(-80)]],
      [has_true_params |-> TRUE,
       true_params |-> [DefaultParams EXCEPT !["HXK_Vmax"] = Num(0)]],
      [has_true_params |-> FALSE, true_params |-> <<>>] }

\* observations: one observed metabolite (row) at two time points
YObserved == <<<<Num(3), Num(4)>>>>

TObserved == <<0, 1>>

ObservableIdx == <<1>>

\* v * (1 + 0.25 * (rand - 0.5)) with rand in hundredths
Perturb(v, u100) == IF v.nan THEN NaN ELSE Num((v.m * (350 + u100)) \div 400)

SeqToSet(s) == {s[i] : i \in 1..Len(s)}

\* [p for p in params_to_est if p in param_source]
RECURSIVE Available(_, _)
Available(names, source) ==
    IF names = <<>> THEN <<>>
    ELSE IF Head(names) \in DOMAIN source
         THEN <<Head(names)>> \o Available(Tail(names), source)
         ELSE Available(Tail(names), source)

\* lines 117-137 and 175 of estimate_pathway: the free names, the perturbed
\* initial guess, the fixed mapping and the args tuple; the stream is left
\* after seed(42) and one rand() per free parameter
EstimateSetup(pattern, file) ==
    LET source == IF file.has_true_params THEN file.true_params ELSE DefaultParams
        names  == IF file.has_true_params THEN ParamsToEstimate
                  ELSE Available(ParamsToEstimate, source)
        guess  == [i \in 1..Len(names) |->
                     Perturb(source[names[i]],
                             Uniform100(pattern, [seed |-> 42, pos |-> i - 1]))]
        fixed  == IF file.has_true_params
                  THEN [k \in DOMAIN source \ SeqToSet(names) |-> source[k]]
                  ELSE source
    IN  [initial_guess |-> guess,
         args |-> [data |-> YObserved, time_points |-> TObserved,
                   obs_idx |-> ObservableIdx, fix_params |-> fixed,
                   p_names |-> names],
         rng |-> [seed |-> 42, pos |-> Len(names)]]

\* ------------------------------------------- trajectory evaluator (likelihood)
\* data.size
DataSize(data) == Len(data) * Len(data[1])

\* (matrix).flatten(), row-major
Flatten(mx) ==
    LET cols == Len(mx[1])
    IN  [i \in 1..(Len(mx) * cols) |-> mx[((i - 1) \div cols) + 1][((i - 1) % cols) + 1]]

\* full_params = fix_params.copy(); full_params[pname] = param_values[i]
MergeParams(fix_params, p_names, param_values) ==
    [n \in DOMAIN fix_params \cup SeqToSet(p_names) |->
        IF \E i \in 1..Len(p_names) : p_names[i] = n
        THEN param_values[CHOOSE i \in 1..Len(p_names) :
                            /\ p_names[i] = n
                            /\ \A j \in (i + 1)..Len(p_names) : p_names[j] # n]
        ELSE fix_params[n]]

\* the writes of lines 144-145 landing in the caller's own dict
FixedAfterAliased(fix_params, p_names, param_values) ==
    MergeParams(fix_params, p_names, param_values)

\* the caller's fix_params after a call: full_params is fix_params.copy(),
\* so the writes of lines 144-145 never reach it
FixedAfterCall(fix_params, p_names, param_values) == fix_params

\* The behaviours of model + integrator the evaluator has to cope with.
Solvers == {"smooth", "stiff", "crash", "dead"}

\* level of the simulated metabolites for a parameter set
Level(p) ==
    IF p["HXK_Vmax"].nan \/ p["HXK_Km_glucose"].nan THEN NaN
    ELSE Num((p["HXK_Vmax"].m \div (10 * Unit)) + (p["HXK_Km_glucose"].m \div (10 * Unit)))

\* GlycolysisModel(full_params) ... solve_ivp(model.ode_system, ...): a rate
\* function that looks up a missing name raises KeyError inside solve_ivp;
\* otherwise the integrator succeeds, reports failure, or raises.
SolveIvp(solver, full_params, time_points) ==
    IF ~(RateNames \subseteq DOMAIN full_params)
    THEN [status |-> "raised", y |-> <<>>]
    ELSE Only({
           LET y == [k \in 1..2 |-> [j \in 1..Len(time_points) |-> lv]]
           IN  CASE solver = "smooth" -> [status |-> "success", y |-> y]
                 [] solver = "stiff"  ->
                      IF lv.nan \/ lv.m >= 4 THEN [status |-> "failed", y |-> <<>>]
                      ELSE [status |-> "success", y |-> y]
                 [] solver = "crash"  ->
                      IF lv.nan \/ lv.m <= 2 THEN [status |-> "raised", y |-> <<>>]
                      ELSE [status |-> "success", y |-> y]
                 [] OTHER             -> [status |-> "failed", y |-> <<>>]
           : lv \in {Level(full_params)}})

\* np.ones(data.size) * 1e10
PenaltyResiduals(data) == [i \in 1..DataSize(data) |-> Sci(1, 10)]

\* likelihood(param_values, args): the residual vector, and whether an
\* exception left the function
LikelihoodNoTry(solver, param_values, args) ==
    Only({
        IF sol.status = "raised"
        THEN [raised |-> TRUE, status |-> sol.status, residuals |-> <<>>,
              fixed_after |-> after]
        ELSE IF sol.status # "success"
        THEN [raised |-> FALSE, status |-> sol.status,
              residuals |-> PenaltyResiduals(args.data),
              fixed_after |-> after]
        ELSE [raised |-> FALSE, status |-> sol.status,
              residuals |-> Flatten([r \in 1..Len(args.obs_idx) |->
                               [j \in 1..Len(args.time_points) |->
                                   FSub(sol.y[args.obs_idx[r]][j], args.data[r][j])]]),
              fixed_after |-> after]
        : sol \in {SolveIvp(solver,
                            MergeParams(args.fix_params, args.p_names, param_values),
                            args.time_points)},
          after \in {FixedAfterCall(args.fix_params, args.p_names, param_values)}})

Likelihood(solver, param_values, args) ==
    Only({
        IF sol.status = "raised"
        THEN [raised |-> FALSE, status |-> sol.status,
              residuals |-> PenaltyResiduals(args.data),
              fixed_after |-> after]
        ELSE IF sol.status # "success"
        THEN [raised |-> FALSE, status |-> sol.status,
              residuals |-> PenaltyResiduals(args.data),
              fixed_after |-> after]
        ELSE [raised |-> FALSE, status |-> sol.status,
              residuals |-> Flatten([r \in 1..Len(args.obs_idx) |->
                               [j \in 1..Len(args.time_points) |->
                                   FSub(sol.y[args.obs_idx[r]][j], args.data[r][j])]]),
              fixed_after |-> after]
        : sol \in {SolveIvp(solver,
                            MergeParams(args.fix_params, args.p_names, param_values),
                            args.time_points)},
          after \in {FixedAfterCall(args.fix_params, args.p_names, param_values)}})

\* np.sum(result ** 2)
SumSquares(residuals) == Only({FSum(sq) : sq \in {FSquares(residuals)}})

\* cost_value(ks_var, custom_function, args)
CostValue(solver, ks, args) ==
    Only({[raised |-> r.raised, status |-> r.status, residuals |-> r.residuals,
           fixed_after |-> r.fixed_after,
           value |-> IF r.raised THEN NaN ELSE SumSquares(r.residuals)]
          : r \in {Likelihood(solver, ks, args)}})

\* a log-likelihood that is not negated
LogLikelihoodUnsigned(solver, ks, args) == CostValue(solver, ks, args)

\* log_likelihood(ks_var, custom_function, args)
LogLikelihood(solver, ks, args) ==
    Only({[raised |-> r.raised, status |-> r.status, residuals |-> r.residuals,
           fixed_after |-> r.fixed_after,
           value |-> IF r.raised THEN NaN ELSE FMul(Num(-1), SumSquares(r.residuals))]
          : r \in {Likelihood(solver, ks, args)}})

\* ------------------------------------------------- float64 penalty sums
\* The decade floats above cannot round.  np.sum(result ** 2) on a penalty
\* vector adds copies of 1e20, whose partial sums leave the 53-bit range,
\* so these sums are redone in float64: a non-negative double that is a
\* whole multiple of 2^10 is the numeral of value / 2^10 in base 2^15,
\* least significant limb first.
LimbBase == 2 ^ 15

Zero64 == <<0, 0, 0, 0, 0>>

\* 1e10 = 9765625 * 2^10, the entry of the penalty vector
E10 == <<761, 298, 0, 0, 0>>

\* 1e20 = 97656250000000000 * 2^10, the literal 1e10**2
E20 == <<17408, 5809, 18270, 2775, 0>>

RECURSIVE Carry(_, _, _)
Carry(s, i, c) ==
    IF i > Len(s) THEN <<>>
    ELSE Only({<<t % LimbBase>> \o Carry(s, i + 1, t \div LimbBase) :
               t \in {s[i] + c}})

BigAdd(a, b) == Carry([i \in 1..Len(a) |-> a[i] + b[i]], 1, 0)

BigTimes(a, n) == Carry([i \in 1..Len(a) |-> a[i] * n], 1, 0)

RECURSIVE ConvSum(_, _, _, _)
ConvSum(a, b, k, i) ==
    IF i > k THEN 0 ELSE a[i] * b[k + 1 - i] + ConvSum(a, b, k, i + 1)

BigMul(a, b) == Carry([k \in 1..Len(a) |-> ConvSum(a, b, k, 1)], 1, 0)

RECURSIVE BigLessFrom(_, _, _)
BigLessFrom(a, b, i) ==
    IF i = 0 THEN FALSE
    ELSE a[i] < b[i] \/ (a[i] = b[i] /\ BigLessFrom(a, b, i - 1))

BigLeq(a, b) == a = b \/ BigLessFrom(a, b, Len(a))

\* the spacing of the doubles around a numeral whose limbs from the fourth
\* up are worth top: 1 below 2^53, doubling with every further bit
RECURSIVE UlpOf(_)
UlpOf(top) == IF top < 256 THEN 1 ELSE 2 * UlpOf(top \div 2)

\* the nearest double, ties to the even significand
RoundTo(n, u, r) ==
    IF r = 0 THEN n
    ELSE LET down == [n EXCEPT ![1] = @ - r]
             up   == BigAdd(down, <<u, 0, 0, 0, 0>>)
         IN  IF 2 * r < u THEN down
             ELSE IF 2 * r > u THEN up
             ELSE IF (down[1] \div u) % 2 = 0 THEN down ELSE up

Round64(n) ==
    Only({RoundTo(n, u, n[1] % u) : u \in {UlpOf(n[4] + LimbBase * n[5])}})

F64Add(a, b) == Only({Round64(s) : s \in {BigAdd(a, b)}})

F64Times(a, n) == Only({Round64(p) : p \in {BigTimes(a, n)}})

\* x kept as it is where result ** 2 is due
F64Same(x) == x

\* result ** 2 on one entry: (v * 2^10)^2 = (v * v * 2^10) * 2^10
F64Square(x) == Only({Round64(BigTimes(p, 2 ^ 10)) : p \in {BigMul(x, x)}})

\* acc + x + x + ... with k additions, left to right (the additions are
\* taken in two consecutive runs to keep the evaluation shallow)
RECURSIVE AddRepeated(_, _, _)
AddRepeated(acc, x, k) ==
    IF k = 0 THEN acc
    ELSE IF k = 1 THEN F64Add(acc, x)
    ELSE Only({AddRepeated(a, x, k - (k \div 2)) :
               a \in {AddRepeated(acc, x, k \div 2)}})

\* numpy's pairwise summation of n copies of x: a plain loop below 8
\* entries, eight running sums up to a block of 128, halves above
RECURSIVE PairwiseSum(_, _)
PairwiseSum(n, x) ==
    IF n < 8 THEN AddRepeated(Zero64, x, n)
    ELSE IF n <= 128
    THEN Only({AddRepeated(F64Add(F64Add(F64Add(r, r), F64Add(r, r)),
                                  F64Add(F64Add(r, r), F64Add(r, r))),
                           x, n % 8) :
               r \in {AddRepeated(x, x, ((n - (n % 8)) \div 8) - 1)}})
    ELSE Only({F64Add(PairwiseSum(n2, x), PairwiseSum(n - n2, x)) :
               n2 \in {(n \div 2) - ((n \div 2) % 8)}})

\* the orders in which np.sum may add the entries
SumOrders == {"pairwise", "sequential"}

\* np.sum(result ** 2) for result = np.ones(size) * 1e10
PenaltySumSquares(order, size) ==
    Only({IF order = "pairwise" THEN PairwiseSum(size, sq)
          ELSE AddRepeated(Zero64, sq, size) : sq \in {F64Square(E10)}})

\* cost_value and log_likelihood on a penalty vector of the given size
PenaltyCostValue(order, size) ==
    [neg |-> FALSE, mag |-> PenaltySumSquares(order, size)]

PenaltyLogLikelihood(order, size) ==
    [neg |-> TRUE, mag |-> PenaltySumSquares(order, size)]

\* ------------------------------------------------------ rate-law arithmetic
\* The rate laws divide, so their values are exact fractions n / d in lowest
\* terms with d > 0, or NaN, or the mark of a ZeroDivisionError.
RECURSIVE Gcd(_, _)
Gcd(a, b) == IF b = 0 THEN a ELSE Gcd(b, a % b)

Abs(n) == IF n < 0 THEN -n ELSE n

RNaN == [k |-> "nan", n |-> 0, d |-> 1]

RRaise == [k |-> "raise", n |-> 0, d |-> 1]

Rat(n, d) ==
    Only({[k |-> "num", n |-> (IF d < 0 THEN -n ELSE n) \div g, d |-> Abs(d) \div g] :
          g \in {IF n = 0 THEN Abs(d) ELSE Gcd(Abs(n), Abs(d))}})

\* how an exception or a NaN operand decides the result before any arithmetic
Special(a, b) ==
    IF a.k = "raise" \/ b.k = "raise" THEN RRaise
    ELSE IF a.k = "nan" \/ b.k = "nan" THEN RNaN
    ELSE [k |-> "num", n |-> 0, d |-> 1]

RAdd(a, b) ==
    IF Special(a, b).k # "num" THEN Special(a, b)
    ELSE Rat(a.n * b.d + b.n * a.d, a.d * b.d)

RSub(a, b) ==
    IF Special(a, b).k # "num" THEN Special(a, b)
    ELSE Rat(a.n * b.d - b.n * a.d, a.d * b.d)

RMul(a, b) ==
    IF Special(a, b).k # "num" THEN Special(a, b)
    ELSE Rat(a.n * b.n, a.d * b.d)

\* float / float: a zero divisor raises ZeroDivisionError
RDiv(a, b) ==
    IF Special(a, b).k # "num" THEN Special(a, b)
    ELSE IF b.n = 0 THEN RRaise
    ELSE Rat(a.n * b.d, a.d * b.n)

\* a < b and a > b on floats: false as soon as one side is NaN
RLess(a, b) == a.k = "num" /\ b.k = "num" /\ a.n * b.d < b.n * a.d

RLeq(a, b) == a.k = "num" /\ b.k = "num" /\ a.n * b.d <= b.n * a.d

\* Python's max(a, b): a unless b > a
PyMax(a, b) == IF RLess(a, b) THEN b ELSE a

\* ------------------------------------------------ TCA cycle (tca_model.py)
\* Concentrations are scaled so that the positive floor of ode_system (1e-10
\* in the code) is one tenth; a parameter dict holds positive values.
ConcFloor == Rat(1, 10)

One == Rat(1, 1)

TcaVmaxNames ==
    {"PYR_transport_Vmax", "PDH_Vmax", "CS_Vmax", "ACO_Vmax", "ICDH_Vmax",
     "KGDH_Vmax", "SCS_Vmax", "SDH_Vmax", "FH_Vmax", "MDH_Vmax"}

TcaKeqNames == {"ACO_Keq", "FH_Keq", "MDH_Keq"}

TcaOtherNames ==
    {"PYR_transport_Km", "PDH_Km_pyruvate", "PDH_Km_NAD", "PDH_Km_CoA",
     "CS_Km_AcCoA", "CS_Km_OAA", "CS_Ki_citrate", "ACO_Km_citrate",
     "ACO_Km_isocitrate", "ICDH_Ka_Ca", "ICDH_Km_isocitrate", "ICDH_Km_NAD",
     "KGDH_Ka_Ca", "KGDH_Ki_SucCoA", "KGDH_Ki_NADH", "KGDH_Km_aKG",
     "KGDH_Km_NAD", "KGDH_Km_CoA", "SCS_Km_SucCoA", "SCS_Km_GDP", "SCS_Km_Pi",
     "SDH_Km_succinate", "SDH_Km_FAD", "FH_Km_fumarate", "FH_Km_malate",
     "MDH_Km_malate", "MDH_Km_NAD", "MDH_Km_OAA", "MDH_Km_NADH"}

\* a parameter dict for TCAModel: every rate constant 2, every equilibrium
\* constant 3, every affinity 1
TcaParams ==
    [n \in TcaVmaxNames \cup TcaKeqNames \cup TcaOtherNames |->
        IF n \in TcaVmaxNames THEN Rat(2, 1)
        ELSE IF n \in TcaKeqNames THEN Rat(3, 1) ELSE One]

\* the fixed cofactor concentrations of TCAModel.__init__
Cofactors ==
    [CoA |-> Rat(1, 2), NAD |-> Rat(2, 1), NADH |-> Rat(1, 10),
     FAD |-> Rat(1, 2), GDP |-> One, Pi |-> Rat(5, 1), Ca |-> Rat(1, 1000)]

\* v = max(v, 1e-10), entry by entry
ClampNone(y) == y

ClampState(y) == [i \in 1..Len(y) |-> PyMax(y[i], ConcFloor)]

\* Vmax * s / (Km + s)
Saturation(vmax, s, km) == RDiv(RMul(vmax, s), RAdd(km, s))

\* reaction 3, citrate synthase
FluxCS(p, AcCoA, OAA, CIT) ==
    RMul(RDiv(RMul(RMul(p["CS_Vmax"], AcCoA), OAA),
              RMul(RAdd(p["CS_Km_AcCoA"], AcCoA), RAdd(p["CS_Km_OAA"], OAA))),
         RDiv(One, RAdd(One, RDiv(CIT, p["CS_Ki_citrate"]))))

\* reaction 10, malate dehydrogenase: forward minus reverse
FluxMDH(p, f, MAL, OAA) ==
    RSub(RDiv(RMul(RMul(p["MDH_Vmax"], MAL), f.NAD),
              RMul(RAdd(p["MDH_Km_malate"], MAL), RAdd(p["MDH_Km_NAD"], f.NAD))),
         RDiv(RMul(RMul(RDiv(p["MDH_Vmax"], p["MDH_Keq"]), OAA), f.NADH),
              RMul(RAdd(p["MDH_Km_OAA"], OAA), RAdd(p["MDH_Km_NADH"], f.NADH))))

\* the ten fluxes at concentrations c (lines 117-222)
TcaFluxes(p, f, c) ==
    [PYR_transport |-> Saturation(p["PYR_transport_Vmax"], Rat(1, 2),
                                  p["PYR_transport_Km"]),
     PDH |-> RDiv(RMul(RMul(RMul(p["PDH_Vmax"], c[1]), f.NAD), f.CoA),
                  RMul(RMul(RAdd(p["PDH_Km_pyruvate"], c[1]),
                            RAdd(p["PDH_Km_NAD"], f.NAD)),
                       RAdd(p["PDH_Km_CoA"], f.CoA))),
     CS |-> FluxCS(p, c[2], c[10], c[3]),
     ACO |-> RSub(Saturation(p["ACO_Vmax"], c[3], p["ACO_Km_citrate"]),
                  Saturation(RDiv(p["ACO_Vmax"], p["ACO_Keq"]), c[4],
                             p["ACO_Km_isocitrate"])),
     ICDH |-> RDiv(RMul(RMul(RMul(p["ICDH_Vmax"],
                                  RAdd(One, RDiv(f.Ca, p["ICDH_Ka_Ca"]))),
                             c[4]), f.NAD),
                   RMul(RAdd(p["ICDH_Km_isocitrate"], c[4]),
                        RAdd(p["ICDH_Km_NAD"], f.NAD))),
     KGDH |-> RDiv(RMul(RMul(RMul(RMul(RMul(RMul(p["KGDH_Vmax"],
                        RAdd(One, RDiv(f.Ca, p["KGDH_Ka_Ca"]))),
                        RDiv(One, RAdd(One, RDiv(c[6], p["KGDH_Ki_SucCoA"])))),
                        RDiv(One, RAdd(One, RDiv(f.NADH, p["KGDH_Ki_NADH"])))),
                        c[5]), f.NAD), f.CoA),
                   RMul(RMul(RAdd(p["KGDH_Km_aKG"], c[5]),
                             RAdd(p["KGDH_Km_NAD"], f.NAD)),
                        RAdd(p["KGDH_Km_CoA"], f.CoA))),
     SCS |-> RDiv(RMul(RMul(RMul(p["SCS_Vmax"], c[6]), f.GDP), f.Pi),
                  RMul(RMul(RAdd(p["SCS_Km_SucCoA"], c[6]),
                            RAdd(p["SCS_Km_GDP"], f.GDP)),
                       RAdd(p["SCS_Km_Pi"], f.Pi))),
     SDH |-> RDiv(RMul(RMul(p["SDH_Vmax"], c[7]), f.FAD),
                  RMul(RAdd(p["SDH_Km_succinate"], c[7]),
                       RAdd(p["SDH_Km_FAD"], f.FAD))),
     FH |-> RSub(Saturation(p["FH_Vmax"], c[8], p["FH_Km_fumarate"]),
                 Saturation(RDiv(p["FH_Vmax"], p["FH_Keq"]), c[9],
                            p["FH_Km_malate"])),
     MDH |-> FluxMDH(p, f, c[9], c[10])]

\* the mass balances with the last one closed on another flux
TcaBalancesOpen(v) ==
    <<RSub(v.PYR_transport, v.PDH), RSub(v.PDH, v.CS), RSub(v.CS, v.ACO),
      RSub(v.ACO, v.ICDH), RSub(v.ICDH, v.KGDH), RSub(v.KGDH, v.SCS),
      RSub(v.SCS, v.SDH), RSub(v.SDH, v.FH), RSub(v.FH, v.MDH),
      RSub(v.MDH, v.ACO)>>

\* dydt[0..9] (lines 227-238)
TcaBalances(v) ==
    <<RSub(v.PYR_transport, v.PDH), RSub(v.PDH, v.CS), RSub(v.CS, v.ACO),
      RSub(v.ACO, v.ICDH), RSub(v.ICDH, v.KGDH), RSub(v.KGDH, v.SCS),
      RSub(v.SCS, v.SDH), RSub(v.SDH, v.FH), RSub(v.FH, v.MDH),
      RSub(v.MDH, v.CS)>>

\* TCAModel.ode_system(t, y): the concentrations the rate expressions saw,
\* the derivative vector, and whether anything raised
TcaOdeSystem(p, f, y) ==
    Only({[seen |-> c, v |-> v, dydt |-> d,
           raised |-> \E i \in 1..Len(d) : d[i].k = "raise"] :
          c \in {ClampState(y)},
          v \in {TcaFluxes(p, f, ClampState(y))},
          d \in {TcaBalances(TcaFluxes(p, f, ClampState(y)))}})

\* TCAModel.get_fluxes(y), lines 248-262: six fluxes from the state as given
GetFluxes(p, f, y) ==
    [PYR_transport |-> Saturation(p["PYR_transport_Vmax"], Rat(1, 2),
                                  p["PYR_transport_Km"]),
     PDH |-> RDiv(RMul(RMul(RMul(p["PDH_Vmax"], y[1]), f.NAD), f.CoA),
                  RMul(RMul(RAdd(p["PDH_Km_pyruvate"], y[1]),
                            RAdd(p["PDH_Km_NAD"], f.NAD)),
                       RAdd(p["PDH_Km_CoA"], f.CoA))),
     CS |-> RDiv(RMul(RMul(p["CS_Vmax"], y[2]), y[10]),
                 RMul(RAdd(p["CS_Km_AcCoA"], y[2]), RAdd(p["CS_Km_OAA"], y[10]))),
     ICDH |-> RDiv(RMul(RMul(p["ICDH_Vmax"], y[4]), f.NAD),
                   RMul(RAdd(p["ICDH_Km_isocitrate"], y[4]),
                        RAdd(p["ICDH_Km_NAD"], f.NAD))),
     KGDH |-> RDiv(RMul(RMul(RMul(p["KGDH_Vmax"], y[5]), f.NAD), f.CoA),
                   RMul(RMul(RAdd(p["KGDH_Km_aKG"], y[5]),
                             RAdd(p["KGDH_Km_NAD"], f.NAD)),
                        RAdd(p["KGDH_Km_CoA"], f.CoA))),
     SDH |-> RDiv(RMul(RMul(p["SDH_Vmax"], y[7]), f.FAD),
                  RMul(RAdd(p["SDH_Km_succinate"], y[7]),
                       RAdd(p["SDH_Km_FAD"], f.FAD)))]

\* ------------------------------------------- glycolysis (glycolysis_model.py)
\* GLYCOLYSIS_PARAMS, the phosphoglucose isomerase entries
PgiParams ==
    [PGI_Vmax |-> Rat(3397, 10), PGI_Km_G6P |-> Rat(14, 10),
     PGI_Km_F6P |-> Rat(3, 10), PGI_Keq |-> Rat(29, 100)]

\* GlycolysisModel.phosphoglucose_isomerase(G6P, F6P): v_for - v_rev
PhosphoglucoseIsomerase(p, G6P, F6P) ==
    RSub(RDiv(RMul(p.PGI_Vmax, G6P), RAdd(p.PGI_Km_G6P, G6P)),
         RDiv(RMul(RDiv(p.PGI_Vmax, p.PGI_Keq), F6P), RAdd(p.PGI_Km_F6P, F6P)))

\* x ** n for a whole exponent n >= 0
RECURSIVE RPow(_, _)
RPow(x, n) == IF n = 0 THEN One ELSE RMul(x, RPow(x, n - 1))

GlyVmaxNames ==
    {"HXK_Vmax", "PGI_Vmax", "PFK_Vmax", "ALD_Vmax", "TPI_Vmax", "GAPDH_Vmax",
     "PGK_Vmax", "GPM_Vmax", "ENO_Vmax", "PYK_Vmax", "PDC_Vmax"}

GlyKeqNames == {"PGI_Keq", "ALD_Keq", "TPI_Keq", "GPM_Keq", "ENO_Keq"}

GlyHillNames == {"PYK_n", "PDC_n"}

GlyOtherNames ==
    {"HXK_Km_glucose", "HXK_Ki_G6P", "HXK_Ki_T6P", "PGI_Km_G6P", "PGI_Km_F6P",
     "PFK_Km_F6P", "PFK_Km_ATP", "PFK_Ki_ATP", "PFK_Ka_AMP", "ALD_Km_F16BP",
     "ALD_Km_DHAP", "ALD_Km_GAP", "TPI_Km_DHAP", "TPI_Km_GAP", "GAPDH_Km_GAP",
     "GAPDH_Km_NAD", "GAPDH_Km_Pi", "PGK_Km_13BPG", "PGK_Km_ADP", "GPM_Km_3PG",
     "GPM_Km_2PG", "ENO_Km_2PG", "ENO_Km_PEP", "PYK_Km_PEP", "PYK_Km_ADP",
     "PYK_Ka_F16BP", "PDC_Km_pyruvate"}

\* a parameter dict for GlycolysisModel: every rate constant 2, every
\* equilibrium constant 3, every Hill coefficient 2, every affinity 1
GlyParams ==
    [n \in GlyVmaxNames \cup GlyKeqNames \cup GlyHillNames \cup GlyOtherNames |->
        IF n \in GlyVmaxNames THEN Rat(2, 1)
        ELSE IF n \in GlyKeqNames THEN Rat(3, 1)
        ELSE IF n \in GlyHillNames THEN Rat(2, 1) ELSE One]

\* the keyword defaults of ode_system and of the rate functions, and AMP
GlyCofactors ==
    [ATP |-> Rat(5, 2), ADP |-> Rat(13, 10), NAD |-> Rat(6, 5), Pi |-> Rat(50, 1),
     T6P |-> Rat(24, 1000), F26BP |-> Rat(14, 1000), AMP |-> Rat(28, 100)]

\* GlycolysisModel.hexokinase
Hexokinase(p, glucose, G6P, ATP, T6P) ==
    Only({RMul(RMul(p["HXK_Vmax"], RDiv(glucose, RAdd(Km_app, glucose))),
               RDiv(One, RAdd(One, RDiv(G6P, p["HXK_Ki_G6P"])))) :
          Km_app \in {RMul(p["HXK_Km_glucose"],
                           RAdd(One, RDiv(T6P, p["HXK_Ki_T6P"])))}})

\* GlycolysisModel.phosphofructokinase
Phosphofructokinase(p, F6P, ATP, AMP, F26BP) ==
    Only({RMul(RMul(RMul(p["PFK_Vmax"], amp_factor),
                    RDiv(F6P, RAdd(p["PFK_Km_F6P"], F6P))),
               RDiv(atp_term, RAdd(One, atp_term))) :
          atp_term \in {RDiv(ATP, RMul(p["PFK_Km_ATP"],
                                       RAdd(One, RDiv(ATP, p["PFK_Ki_ATP"]))))},
          amp_factor \in {RAdd(One, RDiv(AMP, p["PFK_Ka_AMP"]))}})

\* GlycolysisModel.aldolase: v_for - v_rev
Aldolase(p, F16BP, DHAP, GAP) ==
    RSub(Saturation(p["ALD_Vmax"], F16BP, p["ALD_Km_F16BP"]),
         RDiv(RMul(RDiv(p["ALD_Vmax"], p["ALD_Keq"]), RMul(DHAP, GAP)),
              RMul(RAdd(p["ALD_Km_DHAP"], DHAP), RAdd(p["ALD_Km_GAP"], GAP))))

\* GlycolysisModel.triose_phosphate_isomerase: v_for - v_rev
TriosePhosphateIsomerase(p, DHAP, GAP) ==
    RSub(Saturation(p["TPI_Vmax"], DHAP, p["TPI_Km_DHAP"]),
         Saturation(RDiv(p["TPI_Vmax"], p["TPI_Keq"]), GAP, p["TPI_Km_GAP"]))

\* GlycolysisModel.gapdh
Gapdh(p, GAP, NAD, Pi) ==
    RMul(RMul(RMul(p["GAPDH_Vmax"], RDiv(GAP, RAdd(p["GAPDH_Km_GAP"], GAP))),
              RDiv(NAD, RAdd(p["GAPDH_Km_NAD"], NAD))),
         RDiv(Pi, RAdd(p["GAPDH_Km_Pi"], Pi)))

\* GlycolysisModel.phosphoglycerate_kinase
PhosphoglycerateKinase(p, BPG, ADP) ==
    RMul(RMul(p["PGK_Vmax"], RDiv(BPG, RAdd(p["PGK_Km_13BPG"], BPG))),
         RDiv(ADP, RAdd(p["PGK_Km_ADP"], ADP)))

\* GlycolysisModel.phosphoglycerate_mutase: v_for - v_rev
PhosphoglycerateMutase(p, PG3, PG2) ==
    RSub(Saturation(p["GPM_Vmax"], PG3, p["GPM_Km_3PG"]),
         Saturation(RDiv(p["GPM_Vmax"], p["GPM_Keq"]), PG2, p["GPM_Km_2PG"]))

\* GlycolysisModel.enolase: v_for - v_rev
Enolase(p, PG2, PEP) ==
    RSub(Saturation(p["ENO_Vmax"], PG2, p["ENO_Km_2PG"]),
         Saturation(RDiv(p["ENO_Vmax"], p["ENO_Keq"]), PEP, p["ENO_Km_PEP"]))

\* GlycolysisModel.pyruvate_kinase, for a whole Hill coefficient
PyruvateKinase(p, PEP, ADP, F16BP) ==
    Only({RMul(RMul(RMul(p["PYK_Vmax"], RAdd(One, RDiv(h, RAdd(One, h)))),
                    RDiv(PEP, RAdd(p["PYK_Km_PEP"], PEP))),
               RDiv(ADP, RAdd(p["PYK_Km_ADP"], ADP))) :
          h \in {RPow(RDiv(F16BP, p["PYK_Ka_F16BP"]), p["PYK_n"].n)}})

\* GlycolysisModel.pyruvate_decarboxylase, for a whole Hill coefficient
PyruvateDecarboxylase(p, pyruvate) ==
    Only({RDiv(RMul(p["PDC_Vmax"], h),
               RAdd(RPow(p["PDC_Km_pyruvate"], p["PDC_n"].n), h)) :
          h \in {RPow(pyruvate, p["PDC_n"].n)}})

\* the eleven rates of ode_system, lines 242-252
GlyFluxes(p, f, y) ==
    [HXK |-> Hexokinase(p, y[1], y[2], f.ATP, f.T6P),
     PGI |-> PhosphoglucoseIsomerase(p, y[2], y[3]),
     PFK |-> Phosphofructokinase(p, y[3], f.ATP, f.AMP, f.F26BP),
     ALD |-> Aldolase(p, y[4], y[5], y[6]),
     TPI |-> TriosePhosphateIsomerase(p, y[5], y[6]),
     GAPDH |-> Gapdh(p, y[6], f.NAD, f.Pi),
     PGK |-> PhosphoglycerateKinase(p, y[7], f.ADP),
     GPM |-> PhosphoglycerateMutase(p, y[8], y[9]),
     ENO |-> Enolase(p, y[9], y[10]),
     PYK |-> PyruvateKinase(p, y[10], f.ADP, y[4]),
     PDC |-> PyruvateDecarboxylase(p, y[11])]

\* the mass balances of an unbranched chain
GlyBalancesLinear(v) ==
    <<RSub(Rat(0, 1), v.HXK), RSub(v.HXK, v.PGI), RSub(v.PGI, v.PFK),
      RSub(v.PFK, v.ALD), RSub(v.ALD, v.TPI), RSub(v.TPI, v.GAPDH),
      RSub(v.GAPDH, v.PGK), RSub(v.PGK, v.GPM), RSub(v.GPM, v.ENO),
      RSub(v.ENO, v.PYK), RSub(v.PYK, v.PDC)>>

\* dydt[0..10], lines 255-267
GlyBalances(v) ==
    <<RSub(Rat(0, 1), v.HXK), RSub(v.HXK, v.PGI), RSub(v.PGI, v.PFK),
      RSub(v.PFK, v.ALD), RSub(v.ALD, v.TPI),
      RSub(RAdd(v.ALD, v.TPI), v.GAPDH),
      RSub(v.GAPDH, v.PGK), RSub(v.PGK, v.GPM), RSub(v.GPM, v.ENO),
      RSub(v.ENO, v.PYK), RSub(v.PYK, v.PDC)>>

\* GlycolysisModel.ode_system(t, y): the rates and the derivative vector
GlyOdeSystem(p, f, y) ==
    Only({[v |-> v, dydt |-> GlyBalances(v)] : v \in {GlyFluxes(p, f, y)}})

\* ------------------------------------------------------ optimizer helpers
\* a local name that has not been assigned yet
Unbound == <<>>

UnboundValue == [nan |-> TRUE, m |-> 0, e |-> -1]

\* thr = 1.0e-10
Threshold == Sci(1, -10)

\* er_min = 1.0e10
InitialBestCost == Sci(1, 10)

\* a sampler that draws from the normal proposal whatever positive_only says
SampleComponentNormal(positive_only, mn, sd2, z) ==
    IF mn.nan \/ sd2.nan THEN NaN
    ELSE IF sd2.m = 0 THEN mn
         ELSE Num(Unit * (IF z = 0 THEN -10 ELSE 20))

\* one component of np.random.lognormal(log(mn / sqrt(1 + (sd/mn)^2)),
\* sqrt(log(1 + (sd/mn)^2))) or of np.random.normal(mn, sd), for the raw
\* draw z; sd2 is the squared spread.  A non-positive or NaN mean makes the
\* log-normal parameters NaN, and so the candidate.  At zero spread the
\* log-normal candidate is exp(log(mn)), within an ulp of mn and so mn at the
\* resolution of these numbers; CollapseSpec follows that last ulp.
SampleComponent(positive_only, mn, sd2, z) ==
    IF mn.nan \/ sd2.nan THEN NaN
    ELSE IF positive_only
    THEN IF mn.m <= 0 THEN NaN
         ELSE IF sd2.m = 0 THEN mn
         ELSE Num(Unit * (IF z = 0 THEN 10 ELSE 20))
    ELSE IF sd2.m = 0 THEN mn
         ELSE Num(Unit * (IF z = 0 THEN -10 ELSE 20))

\* ksnew_var: one raw draw per parameter, starting at the stream position
SampleCandidate(pattern, r, positive_only, mn_lst, sd_lst) ==
    [i \in 1..Len(mn_lst) |->
        SampleComponent(positive_only, mn_lst[i], sd_lst[i],
                        Raw(pattern, r.seed, r.pos + i - 1))]

\* floor(100 * exp(d)) for an integer d < 0
ExpPercent(d) ==
    IF d = -1 THEN 36 ELSE IF d = -2 THEN 13 ELSE IF d = -3 THEN 4
    ELSE IF d = -4 THEN 1 ELSE 0

\* np.exp(lknew - lkold) > u, u in hundredths
ExpGreater(lknew, lkold, u100) ==
    \E d \in {FSub(lknew, lkold)} :
        /\ ~d.nan
        /\ \/ d.m >= 0
           \/ d.e = 0 /\ ExpPercent(d.m) >= u100

\* the acceptance test without the pass for the first sample
AcceptNoFirst(smpl_ik, lknew, lkold, u100) == ExpGreater(lknew, lkold, u100)

\* line 165: smpl_ik == 0 or np.exp(lknew - lkold) > np.random.uniform(0, 1)
Accept(smpl_ik, lknew, lkold, u100) ==
    smpl_ik = 0 \/ ExpGreater(lknew, lkold, u100)

\* a pool that takes accepted candidates only
PooledAcceptedOnly(pool, accept, ksnew, ksold) ==
    IF accept THEN Append(pool, ksnew) ELSE pool

\* lines 166-170: the held vector after the decision goes into the pool
Pooled(pool, accept, ksnew, ksold) ==
    Append(pool, IF accept THEN ksnew ELSE ksold)

\* the first pooled vector in place of the mean
MeanVecFirst(pool) == pool[1]

\* np.mean(xacept, axis=0)
MeanVec(pool) ==
    [i \in 1..Len(pool[1]) |->
        IF \E k \in 1..Len(pool) : pool[k][i].nan THEN NaN
        ELSE Num(FSum([k \in 1..Len(pool) |-> pool[k][i]]).m \div Len(pool))]

\* np.std(xacept, axis=0), squared
VarVec(pool) ==
    Only({[i \in 1..Len(pool[1]) |->
             IF mean[i].nan THEN NaN
             ELSE Num(FSum([k \in 1..Len(pool) |->
                             Only({FMul(d, d) : d \in {FSub(pool[k][i], mean[i])}})
                           ]).m \div Len(pool))]
          : mean \in {MeanVec(pool)}})

\* np.sum(np.abs(a - b))
L1Distance(a, b) == FSum([i \in 1..Len(a) |-> FAbs(FSub(a[i], b[i]))])

\* the convergence test of lines 182-184 on the recorded means
ConvergedNow(iterz, chk, thr) ==
    /\ iterz >= 2
    /\ FLeq(L1Distance(chk[Len(chk)], chk[Len(chk) - 1]), thr)

\* a convergence exit that keeps the best vector found so far
KeepOnConvergence(best, mn) == best

\* line 188: ks_var = mn_lst
AdoptOnConvergence(best, mn) == mn

\* lines 113-129 with the ks_var initialisation left out
InitChainNoBest(initial_guess) ==
    [mn_lst |-> initial_guess,
     sd_lst |-> [i \in 1..Len(initial_guess) |->
                   IF initial_guess[i].nan THEN NaN
                   ELSE Num((initial_guess[i].m * initial_guess[i].m) \div 25)],
     er_min |-> InitialBestCost,
     ks_var |-> Unbound]

\* lines 113-129: proposal mean and (squared) spread, best cost, best vector
InitChain(initial_guess) ==
    [mn_lst |-> initial_guess,
     sd_lst |-> [i \in 1..Len(initial_guess) |->
                   IF initial_guess[i].nan THEN NaN
                   ELSE Num((initial_guess[i].m * initial_guess[i].m) \div 25)],
     er_min |-> InitialBestCost,
     ks_var |-> initial_guess]

\* the best-so-far update taking any cost, lower or not
BestUpdateAlways(er_cur, best_cost, best, mn) ==
    [er_min |-> er_cur, ks_var |-> mn]

\* the best-so-far update that forgets the vector
BestUpdateCostOnly(er_cur, best_cost, best, mn) ==
    IF FLess(er_cur, best_cost) THEN [er_min |-> er_cur, ks_var |-> best]
    ELSE [er_min |-> best_cost, ks_var |-> best]

\* the best-so-far update with the comparison turned round
BestUpdateInverted(er_cur, best_cost, best, mn) ==
    IF FLess(best_cost, er_cur) THEN [er_min |-> er_cur, ks_var |-> mn]
    ELSE [er_min |-> best_cost, ks_var |-> best]

\* the best-so-far update that also takes an equal cost
BestUpdateNonStrict(er_cur, best_cost, best, mn) ==
    IF FLeq(er_cur, best_cost) THEN [er_min |-> er_cur, ks_var |-> mn]
    ELSE [er_min |-> best_cost, ks_var |-> best]

\* lines 193-195
BestUpdate(er_cur, best_cost, best, mn) ==
    IF FLess(er_cur, best_cost) THEN [er_min |-> er_cur, ks_var |-> mn]
    ELSE [er_min |-> best_cost, ks_var |-> best]

\* Python's None, what a function returns when it falls off its end
None == <<>>

\* a dispatch that runs the single-chain optimizer for any chains
AnyChain(chains) == TRUE

\* run_mcem line 236: if chains == 1
SingleChain(chains) == chains = 1

\* the outer loop running one iteration too many
LoopContinuesInclusive(iterz, maxiter) == iterz <= maxiter

\* while iterz < maxiter
LoopContinues(iterz, maxiter) == iterz < maxiter

\* a run that keeps the stream where the process left it
RunSeedNone(pattern, r) == r

\* run_mcem lines 238-239 and exptn_maxtn line 110: np.random.seed(42),
\* r_rand = uniform(0, 1), np.random.seed(int(r_rand * 100))
RunSeed(pattern, r) == Seed(Uniform100(pattern, Seed(42)))

\* ------------------------------------------------------------------ state
VARIABLES
    file,           \* what the data file holds (load_data_flexible)
    maxiter,        \* settings['maxiter']
    inner_loop,     \* settings['inner']
    positive_only,  \* run_mcem's positive_only (estimate_pathway passes True)
    solver,         \* how model and integrator behave under the evaluator
    pattern,        \* the generator function behind np.random
    rng,            \* the process-wide np.random state: [seed, pos]
    draws,          \* draws made on the stream outside run_mcem
    pc,             \* "setup", "ready", "sampling", "estep", "exit", "aborted"
    initial_guess,  \* ks_lst
    args,           \* (y_obs, t_obs, obs_idx, fixed_params, params_to_est)
    mn_lst, sd_lst, er_min, ks_var, chk_lst, iterz,
    smpl_ik, xacept, ksold_var, lkold,
    converged,      \* the loop was left by the break of line 189
    calls,          \* sampling evaluator calls of the current outer iteration
    iter_log,       \* one record per executed outer iteration
    last_call,      \* the latest evaluator call and what came back
    results,        \* the triples returned by the run_mcem calls so far
    penalty,        \* a float64 evaluation on a penalty vector
    probe           \* one call of a pathway model function: input and output

inputs == <<file, maxiter, inner_loop, positive_only, solver, pattern>>

chain == <<mn_lst, sd_lst, er_min, ks_var, chk_lst, iterz,
           smpl_ik, xacept, ksold_var, lkold, converged>>

history == <<calls, iter_log, last_call>>

vars == <<inputs, rng, draws, pc, initial_guess, args, chain, history, results,
          penalty, probe>>

NoCall == [kind |-> "none", status |-> "none", raised |-> FALSE,
           residuals |-> <<>>, value |-> NaN, at |-> Unbound]

\* no float64 evaluation in hand
PenaltyIdle == [stage |-> "idle", order |-> "none", size |-> 0,
                neg |-> FALSE, mag |-> Zero64]

\* no model function call in hand
ProbeIdle == [fn |-> "none", stage |-> "idle", input |-> <<>>, out |-> <<>>]

\* nothing has run yet
Fresh ==
    /\ rng = Seed(0)
    /\ draws = 0
    /\ pc = "setup"
    /\ initial_guess = Unbound
    /\ args = Unbound
    /\ mn_lst = Unbound /\ sd_lst = Unbound
    /\ er_min = UnboundValue /\ ks_var = Unbound
    /\ chk_lst = <<>> /\ iterz = 0
    /\ smpl_ik = 0 /\ xacept = <<>>
    /\ ksold_var = Unbound /\ lkold = UnboundValue
    /\ converged = FALSE
    /\ calls = 0 /\ iter_log = <<>> /\ last_call = NoCall
    /\ results = <<>>

Init ==
    /\ file \in DataFiles
    /\ maxiter \in 1..MaxIter
    /\ inner_loop \in 1..MaxInner
    /\ positive_only \in BOOLEAN
    /\ solver \in Solvers
    /\ pattern \in Patterns
    /\ Fresh
    /\ penalty = PenaltyIdle
    /\ probe = ProbeIdle

\* estimate_pathway up to the run_mcem call: lines 109-137 and 175
Setup ==
    /\ pc = "setup"
    /\ LET s == EstimateSetup(pattern, file)
       IN  /\ initial_guess' = s.initial_guess
           /\ args' = s.args
           /\ rng' = s.rng
    /\ pc' = "ready"
    /\ UNCHANGED <<penalty, probe, inputs, draws, chain, history, results>>

\* any other code of the process drawing from np.random between two runs
OtherDraw ==
    /\ pc = "ready"
    /\ draws < MaxDraws
    /\ rng' = Advance(rng)
    /\ draws' = draws + 1
    /\ UNCHANGED <<penalty, probe, inputs, pc, initial_guess, args, chain, history, results>>

\* run_mcem(ks_lst, chains=1, ...) entering exptn_maxtn: lines 233-247 and
\* 110-136, up to the first test of the outer loop (maxiter >= 1)
RunMcem ==
    /\ pc = "ready"
    /\ Len(results) < MaxRuns
    /\ rng' = RunSeed(pattern, rng)
    /\ LET c == InitChain(initial_guess)
       IN  /\ mn_lst' = c.mn_lst
           /\ sd_lst' = c.sd_lst
           /\ er_min' = c.er_min
           /\ ks_var' = c.ks_var
    /\ chk_lst' = <<>>
    /\ iterz' = 0
    /\ smpl_ik' = 0
    /\ xacept' = <<>>
    /\ ksold_var' = Unbound
    /\ lkold' = UnboundValue
    /\ converged' = FALSE
    /\ calls' = 0
    /\ iter_log' = <<>>
    /\ last_call' = NoCall
    /\ pc' = "sampling"
    /\ UNCHANGED <<penalty, probe, inputs, draws, initial_guess, args, results>>

\* one pass of the inner loop, lines 151-171: draw, evaluate, accept or
\* reject, pool the held vector
Sample ==
    /\ pc = "sampling"
    /\ smpl_ik < inner_loop
    /\ \E ksnew \in {SampleCandidate(pattern, rng, positive_only, mn_lst, sd_lst)} :
       \E lk \in {LogLikelihood(solver, ksnew, args)} :
       \E rngCand \in {[rng EXCEPT !.pos = @ + Len(mn_lst)]} :
       \E accept \in {Accept(smpl_ik, lk.value, lkold,
                             Uniform100(pattern, rngCand))} :
       \E held \in {IF accept THEN ksnew ELSE ksold_var} :
           /\ last_call' = [kind |-> "loglik", status |-> lk.status,
                            raised |-> lk.raised, residuals |-> lk.residuals,
                            value |-> lk.value, at |-> ksnew]
           /\ calls' = calls + 1
           /\ args' = [args EXCEPT !.fix_params = lk.fixed_after]
           /\ IF lk.raised
              THEN /\ pc' = "aborted"
                   /\ rng' = rngCand
                   /\ UNCHANGED <<smpl_ik, xacept, ksold_var, lkold>>
              ELSE /\ rng' = IF smpl_ik = 0 THEN rngCand ELSE Advance(rngCand)
                   /\ ksold_var' = held
                   /\ lkold' = IF accept THEN lk.value ELSE lkold
                   /\ xacept' = Pooled(xacept, accept, ksnew, ksold_var)
                   /\ smpl_ik' = smpl_ik + 1
                   /\ pc' = IF smpl_ik + 1 < inner_loop THEN "sampling" ELSE "estep"
    /\ UNCHANGED <<penalty, probe, inputs, draws, initial_guess, mn_lst, sd_lst, er_min,
                   ks_var, chk_lst, iterz, converged, iter_log, results>>

\* lines 173-189 when the convergence test fires: E-step, record the mean,
\* adopt it and leave the loop
EStepConverge ==
    /\ pc = "estep"
    /\ \E mean \in {MeanVec(xacept)} :
       \E chk \in {Append(chk_lst, mean)} :
           /\ ConvergedNow(iterz, chk, Threshold)
           /\ mn_lst' = mean
           /\ sd_lst' = VarVec(xacept)
           /\ chk_lst' = chk
           /\ ks_var' = AdoptOnConvergence(ks_var, mean)
           /\ iter_log' = Append(iter_log,
                 [samples |-> calls, costs |-> 0, converged |-> TRUE,
                  mean |-> mean, cost |-> NaN, held |-> lkold])
    /\ converged' = TRUE
    /\ pc' = "exit"
    /\ UNCHANGED <<penalty, probe, inputs, rng, draws, initial_guess, args, er_min, iterz,
                   smpl_ik, xacept, ksold_var, lkold, calls, last_call, results>>

\* lines 173-197 otherwise: E-step, record the mean, cost at the mean,
\* best-so-far update, next outer iteration or end of the loop
EStepContinue ==
    /\ pc = "estep"
    /\ \E mean \in {MeanVec(xacept)} :
       \E chk \in {Append(chk_lst, mean)} :
       \E cur \in {CostValue(solver, mean, args)} :
       \E best \in {BestUpdate(cur.value, er_min, ks_var, mean)} :
           /\ ~ConvergedNow(iterz, chk, Threshold)
           /\ mn_lst' = mean
           /\ sd_lst' = VarVec(xacept)
           /\ chk_lst' = chk
           /\ last_call' = [kind |-> "cost", status |-> cur.status,
                            raised |-> cur.raised, residuals |-> cur.residuals,
                            value |-> cur.value, at |-> mean]
           /\ args' = [args EXCEPT !.fix_params = cur.fixed_after]
           /\ IF cur.raised
              THEN /\ pc' = "aborted"
                   /\ UNCHANGED <<er_min, ks_var, iterz, smpl_ik, xacept,
                                  iter_log, calls>>
              ELSE /\ er_min' = best.er_min
                   /\ ks_var' = best.ks_var
                   /\ iterz' = iterz + 1
                   /\ iter_log' = Append(iter_log,
                         [samples |-> calls, costs |-> 1, converged |-> FALSE,
                          mean |-> mean, cost |-> cur.value, held |-> lkold])
                   /\ calls' = 0
                   /\ IF LoopContinues(iterz + 1, maxiter)
                      THEN /\ smpl_ik' = 0
                           /\ xacept' = <<>>
                           /\ pc' = "sampling"
                      ELSE /\ UNCHANGED <<smpl_ik, xacept>>
                           /\ pc' = "exit"
    /\ UNCHANGED <<penalty, probe, inputs, rng, draws, initial_guess, ksold_var, lkold,
                   converged, results>>

\* lines 205-206 and 250: the triple goes back to the caller
Return ==
    /\ pc = "exit"
    /\ results' = Append(results, <<ks_var, er_min, sd_lst>>)
    /\ pc' = "ready"
    /\ UNCHANGED <<penalty, probe, inputs, rng, draws, initial_guess, args, chain, history>>

Next ==
    \/ Setup
    \/ OtherDraw
    \/ RunMcem
    \/ Sample
    \/ EStepConverge
    \/ EStepContinue
    \/ Return

Spec == Init /\ [][Next]_vars

\* run_mcem is synchronous: once called, every step of the loop is taken
LiveSpec ==
    /\ Spec
    /\ WF_vars(Sample)
    /\ WF_vars(EStepConverge)
    /\ WF_vars(EStepContinue)
    /\ WF_vars(Return)

\* The evaluator's failure path under float64: the integrator fails on every
\* call, so each evaluation squares and sums a penalty vector whose length
\* is the size of the data.
PenaltyInit ==
    /\ file = [has_true_params |-> TRUE, true_params |-> DefaultParams]
    /\ maxiter = 1
    /\ inner_loop = 1
    /\ positive_only = TRUE
    /\ solver = "dead"
    /\ pattern = <<0, 1, 1>>
    /\ Fresh
    /\ probe = ProbeIdle
    /\ \E n \in 1..MaxSize, o \in SumOrders :
           penalty = [PenaltyIdle EXCEPT !.stage = "pending", !.order = o,
                                         !.size = n]

\* cost_value(mn_lst, likelihood, args) on a failing evaluation
PenaltyCost ==
    /\ penalty.stage = "pending"
    /\ \E v \in {PenaltyCostValue(penalty.order, penalty.size)} :
           penalty' = [penalty EXCEPT !.stage = "cost", !.neg = v.neg,
                                      !.mag = v.mag]
    /\ UNCHANGED <<inputs, rng, draws, pc, initial_guess, args, chain, history,
                   results, probe>>

\* log_likelihood(ksnew_var, likelihood, args) on a failing evaluation
PenaltyLogLik ==
    /\ penalty.stage = "pending"
    /\ \E v \in {PenaltyLogLikelihood(penalty.order, penalty.size)} :
           penalty' = [penalty EXCEPT !.stage = "loglik", !.neg = v.neg,
                                      !.mag = v.mag]
    /\ UNCHANGED <<inputs, rng, draws, pc, initial_guess, args, chain, history,
                   results, probe>>

PenaltyNext ==
    \/ PenaltyCost
    \/ PenaltyLogLik

PenaltySpec == PenaltyInit /\ [][PenaltyNext]_vars

\* The pathway models called on their own, outside any estimation run.
Parked ==
    /\ file = [has_true_params |-> TRUE, true_params |-> DefaultParams]
    /\ maxiter = 1
    /\ inner_loop = 1
    /\ positive_only = TRUE
    /\ solver = "smooth"
    /\ pattern = <<0, 1, 1>>
    /\ Fresh
    /\ penalty = PenaltyIdle

\* the values an entry of a state vector takes: below, at and above the
\* floor, and NaN
TcaValues == {RNaN} \cup {Rat(v, 10) : v \in -1..MaxConc}

\* state vectors: AcCoA, CIT, MAL and OAA free, the other six entries alike
TcaInit ==
    /\ Parked
    /\ \E a, c, m, o, rest \in TcaValues :
           probe = [fn |-> "tca", stage |-> "input", out |-> <<>>,
                    input |-> [i \in 1..10 |->
                                  CASE i = 2 -> a [] i = 3 -> c [] i = 9 -> m
                                    [] i = 10 -> o [] OTHER -> rest]]

\* model.ode_system(t, y)
OdeSystemCall ==
    /\ probe.fn = "tca"
    /\ probe.stage = "input"
    /\ probe' = [probe EXCEPT !.stage = "done",
                              !.out = TcaOdeSystem(TcaParams, Cofactors, probe.input)]
    /\ UNCHANGED <<inputs, rng, draws, pc, initial_guess, args, chain, history,
                   results, penalty>>

TcaNext == OdeSystemCall

TcaSpec == TcaInit /\ [][TcaNext]_vars

\* model.get_fluxes(y) at the state ode_system was just called with
GetFluxesCall ==
    /\ probe.fn = "tca"
    /\ probe.stage = "done"
    /\ probe' = [probe EXCEPT !.stage = "reported",
                              !.out = [ode |-> probe.out,
                                       fluxes |-> GetFluxes(TcaParams, Cofactors,
                                                            probe.input)]]
    /\ UNCHANGED <<inputs, rng, draws, pc, initial_guess, args, chain, history,
                   results, penalty>>

FluxNext ==
    \/ OdeSystemCall
    \/ GetFluxesCall

FluxSpec == TcaInit /\ [][FluxNext]_vars

\* concentration pairs: G6P in steps of 0.1 mM and F6P in steps of
\* 0.029 mM, so that F6P / G6P = PGI_Keq whenever the step counts agree
PgiInit ==
    /\ Parked
    /\ \E g, f \in 0..MaxPgi :
           probe = [fn |-> "pgi", stage |-> "input", out |-> <<>>,
                    input |-> [G6P |-> Rat(g, 10), F6P |-> Rat(29 * f, 1000)]]

\* model.phosphoglucose_isomerase(G6P, F6P)
PgiCall ==
    /\ probe.fn = "pgi"
    /\ probe.stage = "input"
    /\ probe' = [probe EXCEPT !.stage = "done",
                              !.out = PhosphoglucoseIsomerase(PgiParams,
                                          probe.input.G6P, probe.input.F6P)]
    /\ UNCHANGED <<inputs, rng, draws, pc, initial_guess, args, chain, history,
                   results, penalty>>

PgiNext == PgiCall

PgiSpec == PgiInit /\ [][PgiNext]_vars

\* the values an entry of a glycolysis state vector takes
GlyValues == {Rat(v, 2) : v \in 0..MaxGly}

\* state vectors: F16BP, DHAP, GAP and BPG free, the other seven entries alike
GlyInit ==
    /\ Parked
    /\ \E b, d, g, k, rest \in GlyValues :
           probe = [fn |-> "gly", stage |-> "input", out |-> <<>>,
                    input |-> [i \in 1..11 |->
                                  CASE i = 4 -> b [] i = 5 -> d [] i = 6 -> g
                                    [] i = 7 -> k [] OTHER -> rest]]

\* model.ode_system(t, y) with the default cofactors
GlyOdeSystemCall ==
    /\ probe.fn = "gly"
    /\ probe.stage = "input"
    /\ probe' = [probe EXCEPT !.stage = "done",
                              !.out = GlyOdeSystem(GlyParams, GlyCofactors,
                                                   probe.input)]
    /\ UNCHANGED <<inputs, rng, draws, pc, initial_guess, args, chain, history,
                   results, penalty>>

GlyNext == GlyOdeSystemCall

GlySpec == GlyInit /\ [][GlyNext]_vars

\* run_mcem called with a chains argument of the caller's choice; the
\* argument is held in probe.input for the whole behaviour.
ChainsInit ==
    /\ file = [has_true_params |-> TRUE, true_params |-> DefaultParams]
    /\ maxiter \in 1..MaxIter
    /\ inner_loop \in 1..MaxInner
    /\ positive_only = TRUE
    /\ solver = "smooth"
    /\ pattern \in Patterns
    /\ Fresh
    /\ penalty = PenaltyIdle
    /\ \E c \in 0..MaxChains :
           probe = [fn |-> "run_mcem", stage |-> "input", out |-> <<>>,
                    input |-> [chains |-> c]]

\* lines 233-250: chains == 1 enters exptn_maxtn
RunMcemSingle ==
    /\ probe.fn = "run_mcem"
    /\ SingleChain(probe.input.chains)
    /\ RunMcem

\* lines 233-236 and the end of the function: no branch is taken, nothing is
\* seeded, called or stored, and None goes back to the caller
RunMcemOther ==
    /\ probe.fn = "run_mcem"
    /\ ~SingleChain(probe.input.chains)
    /\ pc = "ready"
    /\ Len(results) < MaxRuns
    /\ results' = Append(results, None)
    /\ UNCHANGED <<penalty, probe, inputs, rng, draws, pc, initial_guess, args,
                   chain, history>>

ChainsNext ==
    \/ Setup
    \/ RunMcemSingle
    \/ RunMcemOther
    \/ Sample
    \/ EStepConverge
    \/ EStepContinue
    \/ Return

ChainsSpec == ChainsInit /\ [][ChainsNext]_vars

\* ------------------------------ run_complete_analysis (phase6_complete_analysis.py)
\* how a stage call, or the write of the summary file, ends: it returns or
\* it raises an Exception
Outcomes == {"ok", "KeyError", "FileNotFoundError"}

WriteOutcomes == {"ok", "OSError"}

\* the three stage calls in the order of lines 45, 63 and 81
StageOrder == <<"estimation", "robustness", "bayesian">>

\* a try block that lets the exception leave run_complete_analysis
AfterStagePropagating(outcome, next) == IF outcome = "ok" THEN next ELSE "returned"

\* try / except Exception around a stage: execution goes on after the block
AfterStage(outcome, next) == next

AnalysisInit ==
    /\ Parked
    /\ \E e, r, b \in Outcomes : \E w \in WriteOutcomes :
           probe = [fn |-> "analysis", stage |-> "estimation",
                    input |-> [estimation |-> e, robustness |-> r, bayesian |-> b,
                               write |-> w],
                    out |-> [log |-> <<>>, marker |-> FALSE]]

\* one stage call inside its try block (lines 44-50, 62-68, 80-86)
RunStage(name, next) ==
    /\ probe.fn = "analysis"
    /\ probe.stage = name
    /\ probe' = [probe EXCEPT
                    !.stage = AfterStage(probe.input[name], next),
                    !.out.log = Append(@, [stage |-> name,
                                           outcome |-> probe.input[name]])]
    /\ UNCHANGED <<inputs, rng, draws, pc, initial_guess, args, chain, history,
                   results, penalty>>

RunParameterEstimation == RunStage("estimation", "robustness")

RunRobustnessTesting == RunStage("robustness", "bayesian")

RunBayesianFispo == RunStage("bayesian", "summary")

\* lines 102-113: the completion marker, written unless the write raises
WriteMarker ==
    /\ probe.fn = "analysis"
    /\ probe.stage = "summary"
    /\ probe' = [probe EXCEPT !.stage = "returned",
                              !.out.marker = (probe.input.write = "ok")]
    /\ UNCHANGED <<inputs, rng, draws, pc, initial_guess, args, chain, history,
                   results, penalty>>

AnalysisNext ==
    \/ RunParameterEstimation
    \/ RunRobustnessTesting
    \/ RunBayesianFispo
    \/ WriteMarker

\* the stage calls are synchronous: each one ends, and the next statement runs
AnalysisSpec == AnalysisInit /\ [][AnalysisNext]_vars /\ WF_vars(AnalysisNext)

\* ------------------------- exptn_maxtn once the proposal spread is zero
\* One parameter at the resolution of float64: a value is its distance, in
\* ulps, from the mean that the collapsing E-step recorded.  The state of the
\* chain is held in probe.out, the arguments and the scale in probe.input.

\* exp(log(x)) - x in ulps of x, for an x that np.exp returned: np.log and
\* np.exp each round, and the pair gives back x or a neighbour of x
Drifts == {-1, 0, 1}

\* pool sizes at which np.mean of equal entries is that entry exactly
CollapseSizes == {1, 2, 4}

\* lines 154-157 with sd_lst = 0: sigma is sqrt(log(1)) = 0 and the candidate
\* is exp(log(mn_lst / 1)).  seen holds the results the round trip has given
\* so far, d is its rounding on a value it has not been given before.
LognormalZeroSigma(seen, mn, d) ==
    IF \E p \in seen : p[1] = mn
    THEN Only({p[2] : p \in {q \in seen : q[1] = mn}})
    ELSE mn + d

RECURSIVE UlpSum(_, _)
UlpSum(pool, n) == IF n = 0 THEN 0 ELSE pool[n] + UlpSum(pool, n - 1)

\* np.mean(xacept, axis=0)
UlpMean(pool) == UlpSum(pool, Len(pool)) \div Len(pool)

\* np.std(xacept, axis=0) is zero exactly when every entry is the mean
UlpStdZero(pool) == \A k \in 1..Len(pool) : pool[k] = UlpMean(pool)

\* |a - b| in ulps
UlpDistance(a, b) == IF a >= b THEN a - b ELSE b - a

\* the convergence test opening one iteration late
ConvergedUlpsLate(index, chk, thr_ulps) ==
    /\ index >= 3
    /\ UlpDistance(chk[Len(chk)], chk[Len(chk) - 1]) <= thr_ulps

\* lines 182-184, thr counted in ulps of the mean
ConvergedUlps(index, chk, thr_ulps) ==
    /\ index >= 2
    /\ UlpDistance(chk[Len(chk)], chk[Len(chk) - 1]) <= thr_ulps

\* the chain right after line 197 of the iteration whose E-step gave zero
\* spread: that iteration had index entry, recorded the mean 0 and did not
\* converge; thr_ulps is how many ulps of the mean fit into thr
CollapseInit ==
    /\ Parked
    /\ \E mi \in 1..MaxIter, n \in CollapseSizes, t \in 0..MaxThrUlps :
       \E en \in 0..(mi - 1) :
           probe = [fn |-> "collapse",
                    stage |-> IF LoopContinues(en + 1, mi) THEN "sampling"
                              ELSE "exit",
                    input |-> [maxiter |-> mi, inner_loop |-> n, entry |-> en,
                               thr_ulps |-> t],
                    out |-> [iterz |-> en + 1, smpl_ik |-> 0, mn_lst |-> 0,
                             sd_zero |-> TRUE, xacept |-> <<>>, ksold_var |-> 0,
                             chk_lst |-> <<0>>, seen |-> {}, converged |-> FALSE,
                             log |-> <<>>]]

\* lines 151-171: one pass of the inner loop.  Equal candidates have equal
\* log-likelihoods, so a candidate after the first is accepted (exp(0) = 1
\* exceeds the uniform draw) unless that log-likelihood is NaN.
SampleCollapsed ==
    /\ probe.fn = "collapse"
    /\ probe.stage = "sampling"
    /\ probe.out.sd_zero
    /\ \E d \in Drifts, lk_nan \in BOOLEAN :
       \E ksnew \in {LognormalZeroSigma(probe.out.seen, probe.out.mn_lst, d)} :
       \E accept \in {probe.out.smpl_ik = 0 \/ ~lk_nan} :
       \E pool \in {Pooled(probe.out.xacept, accept, ksnew, probe.out.ksold_var)} :
           probe' = [probe EXCEPT
                        !.stage = IF probe.out.smpl_ik + 1 < probe.input.inner_loop
                                  THEN "sampling" ELSE "estep",
                        !.out.seen = @ \cup {<<probe.out.mn_lst, ksnew>>},
                        !.out.ksold_var = pool[Len(pool)],
                        !.out.xacept = pool,
                        !.out.smpl_ik = @ + 1]
    /\ UNCHANGED <<inputs, rng, draws, pc, initial_guess, args, chain, history,
                   results, penalty>>

\* lines 174-189: the E-step, the record and a passing convergence test
EStepCollapsedConverge ==
    /\ probe.fn = "collapse"
    /\ probe.stage = "estep"
    /\ \E mean \in {UlpMean(probe.out.xacept)} :
       \E chk \in {Append(probe.out.chk_lst, mean)} :
           /\ ConvergedUlps(probe.out.iterz, chk, probe.input.thr_ulps)
           /\ probe' = [probe EXCEPT
                           !.stage = "exit",
                           !.out.mn_lst = mean,
                           !.out.sd_zero = UlpStdZero(probe.out.xacept),
                           !.out.chk_lst = chk,
                           !.out.converged = TRUE,
                           !.out.log = Append(@, [iterz |-> probe.out.iterz,
                                                  from |-> probe.out.mn_lst,
                                                  pool |-> probe.out.xacept,
                                                  mean |-> mean,
                                                  converged |-> TRUE])]
    /\ UNCHANGED <<inputs, rng, draws, pc, initial_guess, args, chain, history,
                   results, penalty>>

\* lines 174-184 and 191-197: the E-step, the record, a failing or skipped
\* convergence test, and the step to the next iteration or out of the loop
EStepCollapsedContinue ==
    /\ probe.fn = "collapse"
    /\ probe.stage = "estep"
    /\ \E mean \in {UlpMean(probe.out.xacept)} :
       \E chk \in {Append(probe.out.chk_lst, mean)} :
           /\ ~ConvergedUlps(probe.out.iterz, chk, probe.input.thr_ulps)
           /\ probe' = [probe EXCEPT
                           !.stage = IF LoopContinues(probe.out.iterz + 1,
                                                      probe.input.maxiter)
                                     THEN "sampling" ELSE "exit",
                           !.out.mn_lst = mean,
                           !.out.sd_zero = UlpStdZero(probe.out.xacept),
                           !.out.chk_lst = chk,
                           !.out.iterz = @ + 1,
                           !.out.smpl_ik = 0,
                           !.out.xacept = IF LoopContinues(probe.out.iterz + 1,
                                                           probe.input.maxiter)
                                          THEN <<>> ELSE @,
                           !.out.log = Append(@, [iterz |-> probe.out.iterz,
                                                  from |-> probe.out.mn_lst,
                                                  pool |-> probe.out.xacept,
                                                  mean |-> mean,
                                                  converged |-> FALSE])]
    /\ UNCHANGED <<inputs, rng, draws, pc, initial_guess, args, chain, history,
                   results, penalty>>

CollapseNext ==
    \/ SampleCollapsed
    \/ EStepCollapsedConverge
    \/ EStepCollapsedContinue

CollapseSpec == CollapseInit /\ [][CollapseNext]_vars

\* ----------------------------------------------------------------- claims
\* an outer iteration whose mean improved on the initial best cost
SomeMeanImproved ==
    \E k \in 1..Len(iter_log) :
        ~iter_log[k].converged /\ FLess(iter_log[k].cost, InitialBestCost)

\* the lowest cost among the initial best cost and the evaluated means
LowestLoggedCost ==
    CHOOSE c \in {InitialBestCost} \cup
                 {iter_log[k].cost : k \in {j \in 1..Len(iter_log) :
                                              /\ ~iter_log[j].converged
                                              /\ ~iter_log[j].cost.nan}} :
        \A k \in 1..Len(iter_log) :
            (~iter_log[k].converged /\ ~iter_log[k].cost.nan)
                => FLeq(c, iter_log[k].cost) /\ FLeq(c, InitialBestCost)

\* C1: a run that leaves the loop always holds a full triple with a defined
\* best-parameter vector; when no iteration's mean improved on the initial
\* best cost and the loop did not end by convergence, best_parameters is the
\* initial guess and best_cost is the sentinel 1e10.
C1_BestAlwaysDefined ==
    pc = "exit" =>
        /\ Len(ks_var) = Len(initial_guess)
        /\ Len(sd_lst) = Len(initial_guess)
        /\ er_min # UnboundValue
        /\ (~SomeMeanImproved /\ ~converged) =>
               (ks_var = initial_guess /\ er_min = InitialBestCost)

C1_Witness ==
    /\ pc = "exit"
    /\ ~converged
    /\ ~SomeMeanImproved
    /\ iterz >= 2
    /\ ks_var = initial_guess
    /\ er_min = InitialBestCost

\* C2: within a run best-cost never increases from one step to the next,
\* and it is never above the initial best cost, up to and including the
\* returned triple.
C2_BestCostMonotone ==
    /\ [][(pc \in {"sampling", "estep", "exit"}) => FLeq(er_min', er_min)]_vars
    /\ [](pc \in {"sampling", "estep", "exit"} => FLeq(er_min, InitialBestCost))
    /\ [](\A i \in 1..Len(results) : FLeq(results[i][2], InitialBestCost))

C2_Witness ==
    /\ pc = "exit"
    /\ FLess(er_min, InitialBestCost)
    /\ \E j, k \in 1..Len(iter_log) :
           /\ j < k
           /\ ~iter_log[k].converged
           /\ FLess(iter_log[j].cost, iter_log[k].cost)
           /\ er_min = iter_log[j].cost

\* C3 as stated: whichever way the loop exits, the returned best_cost is the
\* evaluator's cost at the returned best_parameters.
C3_CostMatchesParameters ==
    pc = "exit" => er_min = CostValue(solver, ks_var, args).value

\* C3 amended: best_cost is the evaluator's cost at best_parameters when the
\* loop ends on the iteration budget after an improving iteration; on a
\* convergence exit best_parameters is the latest mean, with no cost
\* evaluated there, and best_cost is the lowest cost of the earlier means;
\* with no improving iteration best_cost is the sentinel 1e10.
C3_CostMatchesOnBudgetExit ==
    pc = "exit" =>
        /\ (~converged /\ SomeMeanImproved)
               => er_min = CostValue(solver, ks_var, args).value
        /\ converged => (ks_var = mn_lst /\ last_call.kind = "loglik")
        /\ er_min = LowestLoggedCost
        /\ ~SomeMeanImproved => er_min = InitialBestCost

C3_Witness ==
    /\ pc = "exit"
    /\ ~converged
    /\ SomeMeanImproved
    /\ ks_var # initial_guess
    /\ ks_var # mn_lst
    /\ er_min = CostValue(solver, ks_var, args).value

\* C4: run_mcem calls with the same inputs return the same triple, however
\* the global stream was used between them.
C4_RunsReproducible ==
    \A i, j \in 1..Len(results) : results[i] = results[j]

C4_Witness ==
    /\ Len(results) = 2
    /\ draws > 0
    /\ results[1] = results[2]
    /\ results[1][1] # initial_guess
    /\ \E i \in 1..Len(results[1][3]) : IsPositive(results[1][3][i])

\* C5: when the integrator reports failure or anything raises while the
\* model is built or integrated, the evaluator hands back one 1e10 per
\* observed value, and no evaluator call ever ends the run by an exception.
C5_FailureGivesPenalty ==
    /\ pc # "aborted"
    /\ ~last_call.raised
    /\ last_call.status \in {"failed", "raised"} =>
           /\ Len(last_call.residuals) = Len(args.data) * Len(args.data[1])
           /\ \A i \in 1..Len(last_call.residuals) :
                  last_call.residuals[i] = Sci(1, 10)

C5_Witness ==
    /\ last_call.kind = "loglik"
    /\ last_call.status = "raised"
    /\ RateNames \subseteq (DOMAIN args.fix_params \cup SeqToSet(args.p_names))
    /\ last_call.residuals = <<Sci(1, 10), Sci(1, 10)>>
    /\ pc \in {"sampling", "estep"}

\* C6 as stated: free and fixed names that do not cover the names the rate
\* functions look up are detected at setup, before any candidate is sampled
\* or evaluated (the run never starts and nothing is returned).
C6_UncoveredNamesRejected ==
    (/\ pc # "setup"
     /\ ~(RateNames \subseteq (DOMAIN args.fix_params \cup SeqToSet(args.p_names))))
        => /\ pc = "ready"
           /\ last_call = NoCall
           /\ results = <<>>

\* C7 as stated: under positive-only sampling no candidate is drawn from a
\* proposal whose mean has a non-positive component (a non-positive initial
\* guess is rejected or clamped first).
C7_PositiveMeanBeforeSampling ==
    (positive_only /\ pc = "sampling") =>
        \A i \in 1..Len(mn_lst) : IsPositive(mn_lst[i])

\* C8: a run ends: it executes at most maxiter outer iterations, each with
\* exactly inner_loop sampling calls of the evaluator and at most one more
\* for the best-so-far update, and leaves the loop only by convergence or
\* with the counter at maxiter.
C8_RunTerminatesWithinBudget ==
    /\ [](/\ Len(iter_log) <= maxiter
          /\ iterz <= maxiter
          /\ calls <= inner_loop
          /\ \A k \in 1..Len(iter_log) :
                 /\ iter_log[k].samples = inner_loop
                 /\ iter_log[k].costs <= 1
          /\ pc = "exit" => (converged \/ iterz = maxiter))
    /\ (pc = "sampling") ~> (pc = "exit")

C8_Witness ==
    /\ pc = "exit"
    /\ ~converged
    /\ iterz = maxiter
    /\ maxiter >= 3
    /\ inner_loop >= 2
    /\ Len(iter_log) = maxiter

\* C9: with maxiter = 1 the returned best_parameters is the first
\* iteration's mean when that mean improved on the initial best cost, and
\* the initial guess otherwise.
C9_SingleIterationResult ==
    (pc = "exit" /\ maxiter = 1) =>
        /\ Len(chk_lst) = 1
        /\ IF FLess(iter_log[1].cost, InitialBestCost)
           THEN ks_var = chk_lst[1]
           ELSE ks_var = initial_guess

C9_Witness ==
    /\ pc = "exit"
    /\ maxiter = 1
    /\ FLess(iter_log[1].cost, InitialBestCost)
    /\ ks_var = chk_lst[1]
    /\ ks_var # initial_guess

\* what the claim names: the float64 product 1e10**2 * n
PenaltyProduct(n) == F64Times(E20, n)

\* C10 as stated: on a penalty vector of n entries the cost is exactly
\* 1e10**2 * n and the log-likelihood exactly its negation.
C10_PenaltyCostExact ==
    penalty.stage \in {"cost", "loglik"} =>
        /\ penalty.mag = PenaltyProduct(penalty.size)
        /\ penalty.neg = (penalty.stage = "loglik")

\* C10 amended: on a penalty vector of n entries the cost is the float64
\* sum of n terms 1e20, a finite non-negative number equal to 1e10**2 * n
\* up to 97 entries and within 2^20 per entry of n * 1e20 for any size (a
\* relative error near 1e-14); the log-likelihood is the negation of that
\* same sum.
C10_PenaltyCostRounded ==
    penalty.stage \in {"cost", "loglik"} =>
        /\ penalty.neg = (penalty.stage = "loglik")
        /\ penalty.mag = PenaltyCostValue(penalty.order, penalty.size).mag
        /\ penalty.size <= 97 => penalty.mag = PenaltyProduct(penalty.size)
        /\ \E exact \in {BigTimes(E20, penalty.size)} :
           \E slack \in {BigTimes(<<1, 0, 0, 0, 0>>, penalty.size * 2 ^ 10)} :
               /\ BigLeq(penalty.mag, BigAdd(exact, slack))
               /\ BigLeq(exact, BigAdd(penalty.mag, slack))

C10_Witness ==
    /\ penalty.stage = "loglik"
    /\ penalty.neg
    /\ penalty.size > 97
    /\ penalty.mag # PenaltyProduct(penalty.size)
    /\ penalty.mag # Zero64

\* C11 as stated: after setup, in both branches of estimate_pathway, no name
\* is both a free parameter name and a key of the fixed-parameter mapping.
C11_FreeFixedDisjoint ==
    pc # "setup" => SeqToSet(args.p_names) \cap DOMAIN args.fix_params = {}

\* C12: after any number of evaluator calls the fixed-parameter mapping, the
\* observed values, the time grid and the observable indices are what
\* estimate_pathway built before the run.
C12_EvaluatorInputsUnchanged ==
    pc # "setup" => args = EstimateSetup(pattern, file).args

C12_Witness ==
    /\ last_call.kind = "cost"
    /\ Len(iter_log) >= 2
    /\ Len(results) >= 1
    /\ last_call.at # initial_guess
    /\ args = EstimateSetup(pattern, file).args

\* C13: for every state vector the oxaloacetate derivative is v_MDH - v_CS
\* with both fluxes recomputed from the current (floored) state, and the
\* same v_CS closes the acetyl-CoA and citrate balances, the same v_MDH the
\* malate balance.
C13_CycleClosure ==
    (probe.fn = "tca" /\ probe.stage = "done") =>
        \E c \in {[i \in 1..10 |-> PyMax(probe.input[i], ConcFloor)]} :
        \E v \in {TcaFluxes(TcaParams, Cofactors, c)} :
        \E cs \in {FluxCS(TcaParams, c[2], c[10], c[3])} :
        \E mdh \in {FluxMDH(TcaParams, Cofactors, c[9], c[10])} :
            /\ probe.out.dydt[10] = RSub(mdh, cs)
            /\ probe.out.dydt[2] = RSub(v.PDH, cs)
            /\ probe.out.dydt[3] = RSub(cs, v.ACO)
            /\ probe.out.dydt[9] = RSub(v.FH, mdh)

C13_Witness ==
    /\ probe.fn = "tca"
    /\ probe.stage = "done"
    /\ \A i \in 1..10 : probe.out.dydt[i].k = "num"
    /\ probe.input[10] = Rat(-1, 10)
    /\ probe.input[9] = Rat(2, 10)
    /\ probe.out.dydt[10].n # 0
    /\ probe.out.dydt[10] =
           RSub(FluxMDH(TcaParams, Cofactors, probe.out.seen[9], probe.out.seen[10]),
                FluxCS(TcaParams, probe.out.seen[2], probe.out.seen[10],
                       probe.out.seen[3]))

C15_PgiFollowsDrivingForce ==
    (probe.fn = "pgi" /\ probe.stage = "done" /\ probe.input.G6P.n > 0) =>
        \E target \in {RMul(PgiParams.PGI_Keq, probe.input.G6P)} :
            /\ probe.input.F6P = target => probe.out = Rat(0, 1)
            /\ RLess(probe.input.F6P, target) => RLess(Rat(0, 1), probe.out)
            /\ RLess(target, probe.input.F6P) => RLess(probe.out, Rat(0, 1))

\* C16 as stated: from the second outer iteration on, an iteration whose
\* mean lies within the threshold (L1) of the previous mean ends the run;
\* so no iteration from the second on goes on to the cost evaluation with
\* such a mean.
C16_ConvergenceFromSecondIteration ==
    \A k \in 2..Len(iter_log) :
        ~iter_log[k].converged =>
            ~FLeq(L1Distance(iter_log[k].mean, iter_log[k - 1].mean), Threshold)

\* the earliest iteration whose mean cost is the best cost
EarliestBest ==
    CHOOSE k \in 1..Len(iter_log) :
        /\ iter_log[k].cost = er_min
        /\ \A j \in 1..(k - 1) : iter_log[j].cost # er_min

\* C17: while no iteration has ended by convergence, best-cost is the minimum
\* of the initial best-cost and the costs of the means so far, and
\* best-parameters is the mean of the earliest iteration that reached that
\* minimum (the initial guess if none went below the initial best-cost); an
\* iteration whose mean cost is not strictly lower changes neither.
C17_BestSoFarIsEarliestMinimum ==
    /\ []((pc \in {"sampling", "estep", "exit"} /\ ~converged) =>
             /\ er_min = LowestLoggedCost
             /\ IF FLess(er_min, InitialBestCost)
                THEN ks_var = iter_log[EarliestBest].mean
                ELSE ks_var = initial_guess /\ er_min = InitialBestCost)
    /\ [][(pc = "estep" /\ ~converged' /\ pc' # "aborted"
              /\ ~FLess(last_call'.value, er_min))
             => (er_min' = er_min /\ ks_var' = ks_var)]_vars

C17_Witness ==
    /\ pc = "exit"
    /\ ~converged
    /\ \E j, k \in 1..Len(iter_log) :
           /\ j < k
           /\ iter_log[j].cost = iter_log[k].cost
           /\ iter_log[j].mean # iter_log[k].mean
           /\ FLess(iter_log[j].cost, InitialBestCost)
           /\ er_min = iter_log[j].cost
           /\ ks_var = iter_log[j].mean
           /\ \A i \in 1..(j - 1) : iter_log[i].cost # er_min

\* C18 as stated: the initial spread is 20% of |initial guess| and best-cost
\* starts at +infinity, so after the first outer iteration best-parameters
\* is that iteration's mean whenever its cost is a finite number.
C18_FirstFiniteMeanAdopted ==
    /\ (pc = "sampling" /\ iter_log = <<>> /\ smpl_ik = 0) =>
           /\ er_min = InitialBestCost
           /\ \A i \in 1..Len(initial_guess) :
                  IF initial_guess[i].nan THEN sd_lst[i].nan
                  ELSE sd_lst[i] =
                         Num((FAbs(initial_guess[i]).m * FAbs(initial_guess[i]).m)
                             \div 25)
    /\ (pc \in {"sampling", "exit"} /\ Len(iter_log) = 1 /\ smpl_ik = 0
          /\ ~iter_log[1].cost.nan) =>
           (ks_var = iter_log[1].mean /\ er_min = iter_log[1].cost)

\* C19: every sampling step appends exactly one vector to the pool, the one
\* held after its accept/reject decision (the candidate, or the previously
\* held vector again); the pool has one entry per step taken and inner_loop
\* entries at the E-step, and every entry is a candidate of this iteration
\* (the first entry is the first candidate, a repeated entry repeats the
\* entry before it).
C19_PoolTakesHeldVector ==
    /\ [](pc = "sampling" => (Len(xacept) = smpl_ik /\ smpl_ik < inner_loop))
    /\ [](pc = "estep" => (Len(xacept) = inner_loop /\ smpl_ik = inner_loop))
    /\ [][(pc = "sampling" /\ pc' \in {"sampling", "estep"}) =>
             /\ smpl_ik' = smpl_ik + 1
             /\ xacept' = Append(xacept, ksold_var')
             /\ \/ ksold_var' = last_call'.at /\ lkold' = last_call'.value
                \/ /\ smpl_ik > 0
                   /\ ksold_var' = ksold_var /\ lkold' = lkold
                   /\ ksold_var = xacept[Len(xacept)]]_vars

C19_Witness ==
    /\ pc = "estep"
    /\ Len(xacept) = 2
    /\ xacept[2] = xacept[1]
    /\ last_call.kind = "loglik"
    /\ last_call.at # xacept[2]

\* C20: the first candidate of every outer iteration is accepted whatever
\* was held before; a later candidate is accepted exactly when
\* exp(lknew - lkold) > u for the next uniform draw u, so always when lknew is
\* not lower than lkold; a rejection leaves the held vector and the held
\* log-likelihood unchanged.
C20_MetropolisAcceptance ==
    [][(pc = "sampling" /\ pc' \in {"sampling", "estep"}) =>
         LET lknew == last_call'.value
             cand == last_call'.at
             afterCand == [rng EXCEPT !.pos = @ + Len(mn_lst)]
             u == Uniform100(pattern, afterCand)
             accepted == ksold_var' = cand /\ lkold' = lknew
             rejected == ksold_var' = ksold_var /\ lkold' = lkold
         IN  /\ smpl_ik = 0 => (accepted /\ rng' = afterCand)
             /\ smpl_ik > 0 => rng' = Advance(afterCand)
             /\ (smpl_ik > 0 /\ ExpGreater(lknew, lkold, u)) => accepted
             /\ (smpl_ik > 0 /\ ~ExpGreater(lknew, lkold, u)) => rejected
             /\ (smpl_ik > 0 /\ FLeq(lkold, lknew)) => accepted]_vars

C20_Witness ==
    /\ pc \in {"sampling", "estep"}
    /\ iterz >= 1
    /\ smpl_ik = 1
    /\ last_call.kind = "loglik"
    /\ ksold_var = last_call.at
    /\ lkold = last_call.value
    /\ ~ExpGreater(lkold, iter_log[Len(iter_log)].held, 1)

\* the integer sum of f[1..n]
RECURSIVE IntSum(_, _)
IntSum(f, n) == IF n = 0 THEN 0 ELSE f[n] + IntSum(f, n - 1)

\* mn is the elementwise arithmetic mean of the pool
IsMeanOf(mn, pool) ==
    /\ Len(mn) = Len(pool[1])
    /\ \A i \in 1..Len(mn) :
          IF \E k \in 1..Len(pool) : pool[k][i].nan THEN mn[i].nan
          ELSE /\ ~mn[i].nan
               /\ mn[i].e = 0
               /\ \A k \in 1..Len(pool) : pool[k][i].e = 0
               /\ mn[i].m * Len(pool) =
                      IntSum([k \in 1..Len(pool) |-> pool[k][i].m], Len(pool))

\* sd2 is the elementwise population variance of the pool (np.std squared)
IsVarianceOf(sd2, pool) ==
    /\ Len(sd2) = Len(pool[1])
    /\ \A i \in 1..Len(sd2) :
          IF \E k \in 1..Len(pool) : pool[k][i].nan THEN sd2[i].nan
          ELSE /\ ~sd2[i].nan
               /\ sd2[i].e = 0
               /\ sd2[i].m * Len(pool) * Len(pool) * Len(pool) =
                      IntSum([k \in 1..Len(pool) |->
                                (Len(pool) * pool[k][i].m
                                 - IntSum([j \in 1..Len(pool) |-> pool[j][i].m],
                                          Len(pool))) ^ 2],
                             Len(pool))

\* C21: the E-step sets the proposal mean and spread to the elementwise mean
\* and standard deviation of the vectors pooled in that iteration only, and
\* the run returns the spread computed from the pool of its last executed
\* iteration, also when that iteration ended the run by convergence.
C21_ProposalFromThisPool ==
    /\ [][(pc = "estep" /\ pc' \in {"sampling", "exit"}) =>
             (IsMeanOf(mn_lst', xacept) /\ IsVarianceOf(sd_lst', xacept))]_vars
    /\ [](pc = "exit" =>
             /\ Len(xacept) = inner_loop
             /\ IsMeanOf(mn_lst, xacept)
             /\ IsVarianceOf(sd_lst, xacept))
    /\ [][pc = "exit" =>
             (/\ Len(results') = Len(results) + 1
              /\ results'[Len(results')][3] = sd_lst
              /\ IsVarianceOf(results'[Len(results')][3], xacept))]_vars

C21_Witness ==
    /\ pc = "ready"
    /\ results # <<>>
    /\ converged
    /\ Len(xacept) = 2
    /\ xacept[1] # xacept[2]
    /\ results[Len(results)][3] = sd_lst
    /\ \E i \in 1..Len(sd_lst) : IsPositive(sd_lst[i])
    /\ IsVarianceOf(sd_lst, xacept)

\* C22: log_likelihood returns the negation of cost_value at the same
\* vector (the two add up to zero, or both are NaN), so of two vectors one
\* has the higher log-likelihood exactly when it has the lower cost.
C22_LogLikelihoodNegatesCost ==
    /\ (last_call.kind = "loglik" /\ ~last_call.raised) =>
          \E c \in {CostValue(solver, last_call.at, args)} :
              /\ ~c.raised
              /\ c.value.nan <=> last_call.value.nan
              /\ ~c.value.nan => FAdd(last_call.value, c.value) = Num(0)
    /\ pc \in {"sampling", "estep", "exit"} =>
          \A i, j \in 1..Len(xacept) :
              \E la \in {LogLikelihood(solver, xacept[i], args).value} :
              \E lb \in {LogLikelihood(solver, xacept[j], args).value} :
              \E ca \in {CostValue(solver, xacept[i], args).value} :
              \E cb \in {CostValue(solver, xacept[j], args).value} :
                  FLess(lb, la) <=> FLess(ca, cb)

C22_Witness ==
    /\ pc = "estep"
    /\ Len(xacept) = 2
    /\ last_call.kind = "loglik"
    /\ FLess(last_call.value, Num(0))
    /\ FLess(LogLikelihood(solver, xacept[1], args).value,
             LogLikelihood(solver, xacept[2], args).value)
    /\ FLess(CostValue(solver, xacept[2], args).value,
             CostValue(solver, xacept[1], args).value)

\* the eleven rate names in pathway order
GlyRateOrder ==
    <<"HXK", "PGI", "PFK", "ALD", "TPI", "GAPDH", "PGK", "GPM", "ENO", "PYK",
      "PDC">>

\* C23 as stated: slot 0 of the glycolysis derivative is -v_HXK and every
\* slot i from 1 to 10 is rate i-1 minus rate i in pathway order.
C23_BranchFreeBalance ==
    (probe.fn = "gly" /\ probe.stage = "done") =>
        /\ probe.out.dydt[1] = RSub(Rat(0, 1), probe.out.v.HXK)
        /\ \A i \in 2..11 :
               probe.out.dydt[i] = RSub(probe.out.v[GlyRateOrder[i - 1]],
                                        probe.out.v[GlyRateOrder[i]])

\* C23 amended: slot 0 is -v_HXK and every slot i from 1 to 10 other than
\* slot 5 is rate i-1 minus rate i; slot 5 (GAP) has two producing rates, it
\* is v_ALD + v_TPI - v_GAPDH, and v_ALD also feeds slot 4 (DHAP).
C23_BalanceWithAldolaseBranch ==
    (probe.fn = "gly" /\ probe.stage = "done") =>
        /\ probe.out.v = GlyFluxes(GlyParams, GlyCofactors, probe.input)
        /\ probe.out.dydt[1] = RSub(Rat(0, 1), probe.out.v.HXK)
        /\ \A i \in (2..11) \ {6} :
               probe.out.dydt[i] = RSub(probe.out.v[GlyRateOrder[i - 1]],
                                        probe.out.v[GlyRateOrder[i]])
        /\ probe.out.dydt[6] =
               RSub(RAdd(probe.out.v.ALD, probe.out.v.TPI), probe.out.v.GAPDH)

C23_Witness ==
    /\ probe.fn = "gly"
    /\ probe.stage = "done"
    /\ \A i \in 1..11 : probe.out.dydt[i].k = "num"
    /\ probe.out.v.ALD.n # 0
    /\ probe.out.dydt[6] # RSub(probe.out.v.TPI, probe.out.v.GAPDH)
    /\ probe.out.dydt[6] =
           RSub(RAdd(probe.out.v.ALD, probe.out.v.TPI), probe.out.v.GAPDH)

\* C24 as stated: whenever a candidate is about to be drawn, every component
\* of the proposal spread is strictly positive, also in an iteration that
\* follows a degenerate pool.
C24_SpreadFloored ==
    (pc = "sampling" /\ iterz >= 1 /\ \A i \in 1..Len(mn_lst) : IsPositive(mn_lst[i]))
        => \A i \in 1..Len(sd_lst) : IsPositive(sd_lst[i])

\* C25: the iteration that triggers convergence overwrites best-parameters
\* with the latest mean and leaves the loop at once: no cost is evaluated at
\* that mean and best-cost keeps the value it had after the iteration before.
C25_ConvergenceSkipsBestUpdate ==
    /\ [][(pc = "estep" /\ converged') =>
             /\ pc' = "exit"
             /\ ks_var' = mn_lst'
             /\ IsMeanOf(ks_var', xacept)
             /\ er_min' = er_min
             /\ last_call' = last_call
             /\ iterz' = iterz
             /\ iter_log'[Len(iter_log')].costs = 0]_vars
    /\ [](converged =>
             /\ ks_var = mn_lst
             /\ ks_var = iter_log[Len(iter_log)].mean
             /\ last_call.kind = "loglik"
             /\ er_min = LowestLoggedCost)

C25_Witness ==
    /\ pc = "exit"
    /\ converged
    /\ FLess(er_min, InitialBestCost)
    /\ \E k \in 1..(Len(iter_log) - 1) :
           /\ iter_log[k].cost = er_min
           /\ iter_log[k].mean # ks_var
    /\ \E c \in {CostValue(solver, ks_var, args)} :
           ~c.raised /\ c.value # er_min

\* C26: with positive-only sampling and an initial guess that is strictly
\* positive in every component, every candidate handed to the evaluator and
\* every recorded proposal mean is strictly positive in every component.
C26_PositiveStaysPositive ==
    (positive_only /\ pc \in {"sampling", "estep", "exit"}
       /\ \A i \in 1..Len(initial_guess) : IsPositive(initial_guess[i])) =>
        /\ \A i \in 1..Len(mn_lst) : IsPositive(mn_lst[i])
        /\ \A k \in 1..Len(chk_lst) :
               \A i \in 1..Len(chk_lst[k]) : IsPositive(chk_lst[k][i])
        /\ \A k \in 1..Len(xacept) :
               \A i \in 1..Len(xacept[k]) : IsPositive(xacept[k][i])
        /\ last_call.kind = "loglik" =>
               \A i \in 1..Len(last_call.at) : IsPositive(last_call.at[i])
        /\ last_call.kind = "cost" =>
               \A i \in 1..Len(last_call.at) : IsPositive(last_call.at[i])

C26_Witness ==
    /\ positive_only
    /\ pc = "exit"
    /\ iterz >= 2
    /\ \A i \in 1..Len(initial_guess) : IsPositive(initial_guess[i])
    /\ \E i \in 1..Len(sd_lst) : IsPositive(sd_lst[i])
    /\ \A i \in 1..Len(mn_lst) : IsPositive(mn_lst[i])
    /\ mn_lst # initial_guess

StagesInOrder ==
    /\ Len(probe.out.log) <= 3
    /\ \A k \in 1..Len(probe.out.log) : probe.out.log[k].stage = StageOrder[k]

\* C29 as stated: the three stages always run in order, an exception of a
\* stage does not stop the later ones, and when the function returns the
\* completion marker has been written, whatever the stages did.
C29_MarkerAlwaysWritten ==
    /\ [](probe.fn = "analysis" => StagesInOrder)
    /\ <>(probe.stage = "returned")
    /\ [](probe.stage = "returned" =>
             (Len(probe.out.log) = 3 /\ probe.out.marker))

\* C29 amended: the three stages always run in order, an Exception raised by
\* a stage is caught and the later stages still run, and the write of the
\* completion marker is always attempted after the third stage, whatever the
\* stages did; the marker is there on return unless the write itself raised,
\* which is caught as well.
C29_StagesRunMarkerAttempted ==
    /\ [](probe.fn = "analysis" => StagesInOrder)
    /\ <>(probe.stage = "returned")
    /\ [](probe.stage = "summary" => Len(probe.out.log) = 3)
    /\ [](probe.stage = "returned" =>
             /\ Len(probe.out.log) = 3
             /\ \A k \in 1..3 :
                    probe.out.log[k].outcome = probe.input[StageOrder[k]]
             /\ probe.out.marker <=> probe.input.write = "ok")

C29_Witness ==
    /\ probe.fn = "analysis"
    /\ probe.stage = "returned"
    /\ Len(probe.out.log) = 3
    /\ \A k \in 1..3 : probe.out.log[k].outcome # "ok"
    /\ probe.out.marker

\* C30 as stated: at every state vector each of the six fluxes get_fluxes
\* reports equals the flux of the same name ode_system computed there.
C30_ReportedFluxesMatchOde ==
    (probe.fn = "tca" /\ probe.stage = "reported") =>
        \A name \in DOMAIN probe.out.fluxes :
            probe.out.fluxes[name] = probe.out.ode.v[name]

====
